---- MODULE Spec2Model ----
(***************************************************************************)
(* A model of the platformer variants of agi-games1.0x:                    *)
(*   geminiultramario1.x.py      (prog = "gemini")                         *)
(*   ultra_mario_forever_1_0a.py (prog = "forever")                        *)
(*   ultrasmb4k.py               (prog = "smb4k")                          *)
(*   demo1--ultramario.py        (prog = "demo1")                          *)
(*   ultramario4k1.x.py          (prog = "hdr4k")                          *)
(*                                                                         *)
(* One run executes one program.  Positions are pygame.Rect integers.      *)
(* Velocities are exact decimals held as integers in units of 1/Unit px    *)
(* per step; assigning a float to a Rect coordinate truncates toward zero. *)
(***************************************************************************)
EXTENDS Integers, Sequences, FiniteSets, TLC

VARIABLES
    prog,      \* which program file is running
    mode,      \* the main loop's game state / mode
    player,    \* the Player / Mario object
    world,     \* world_objects / platforms / solids / the tile level
    enemies,   \* the enemy list
    coins,     \* the coin list
    items,     \* the item list
    input,     \* the user: the direction key held, jump key-downs left to make
    obs        \* what the last step did (events emitted), not program state

vars == <<prog, mode, player, world, enemies, coins, items, input, obs>>

-----------------------------------------------------------------------------
(* Arithmetic and pygame.Rect                                              *)

\* Velocities are floats in the code; here they are whole numbers of 1/Unit px
\* per step. Sums of the two-decimal constants are exact in this unit; a
\* product with a friction factor is cut to the unit.
Unit == 1000 * 1000

Min(a, b) == IF a < b THEN a ELSE b
Max(a, b) == IF a > b THEN a ELSE b
Abs(a) == IF a < 0 THEN -a ELSE a

\* C-style conversion of a float to int: truncation toward zero.
TruncDiv(n, d) == IF n >= 0 THEN n \div d ELSE -((-n) \div d)

\* rect.x += v  (v in 1/Unit px): the float sum is truncated by the setter.
AddTrunc(c, v) == TruncDiv(c * Unit + v, Unit)

Rect(x, y, w, h) == [x |-> x, y |-> y, w |-> w, h |-> h]
RLeft(r) == r.x
RRight(r) == r.x + r.w
RTop(r) == r.y
RBottom(r) == r.y + r.h
RCenterX(r) == r.x + (r.w \div 2)
RCenterY(r) == r.y + (r.h \div 2)

colliderect(a, b) ==
    /\ a.x < b.x + b.w
    /\ a.y < b.y + b.h
    /\ a.x + a.w > b.x
    /\ a.y + a.h > b.y

SetRight(r, v) == [r EXCEPT !.x = v - r.w]
SetLeft(r, v) == [r EXCEPT !.x = v]
SetBottom(r, v) == [r EXCEPT !.y = v - r.h]
SetTop(r, v) == [r EXCEPT !.y = v]

\* The sequence s without the positions in the set drop.
RECURSIVE Without(_, _, _)
Without(s, drop, i) ==
    IF i > Len(s) THEN <<>>
    ELSE (IF i \in drop THEN <<>> ELSE <<s[i]>>) \o Without(s, drop, i + 1)

\* A user's plan for the jump key is a sequence of stretches: the steps the
\* key keeps its state, by turns up and down.
\* What is left of a plan after one more step in its first stretch
PlanAfter(plan) ==
    IF plan = <<>> THEN <<>>
    ELSE IF Head(plan) > 1 THEN <<Head(plan) - 1>> \o Tail(plan)
    ELSE IF Len(plan) = 1 THEN <<>>
    ELSE <<0>> \o Tail(plan)

\* What is left of a plan after a step that changes the jump key
PlanTurn(plan) == IF plan = <<>> THEN <<>> ELSE PlanAfter(Tail(plan))

-----------------------------------------------------------------------------
(* Enumerations shared by geminiultramario1.x.py and                       *)
(* ultra_mario_forever_1_0a.py                                             *)

SMALL == 0
SUPER == 1
FIRE == 2
Tiers == {SMALL, SUPER, FIRE}

\* Bounds of the model (not program constants).
SinceCap == 8      \* "steps since the last ground contact" is counted up to here
StruckCap == 3     \* upward hits on one block are counted up to here
MaxLives == 2      \* lives in hand when a session starts: 1..MaxLives
MaxJumps == 2      \* jump key-downs the user makes in one run, standing
MaxJumpsMoving == 1  \* ... in a run with something else moving sideways
AgeCap == 8        \* updates counted since the latest jump key-down

\* The events of one update: the jump sound, hurt events, stomps, a fall out
\* of the level, and what each enemy the player met found and left.
NoEvents ==
    [jumped |-> FALSE, hurts |-> <<>>, stomps |-> 0, fell |-> FALSE, contacts |-> <<>>]

-----------------------------------------------------------------------------
(* geminiultramario1.x.py: constants (velocities in 1/100 px per step)     *)

GemSCREEN_WIDTH == 640
GemSCREEN_HEIGHT == 480
GemGRAVITY == 85
GemMAX_FALL_SPEED == 1000
GemJUMP_VELOCITY == -1300
GemWALK_ACCEL == 30
GemRUN_ACCEL == 50
GemMAX_WALK_SPEED == 400
GemMAX_RUN_SPEED == 650
GemFRICTION == 88
GemAIR_FRICTION == 94
GemCoyoteFrames == 6
GemJumpBufferFrames == 6
GemInvincibleFrames == 120
GemStompFrames == 20
GemBounceFrames == 6

\* a velocity constant given in 1/100 px, in 1/Unit px
Cent(v) == v * (Unit \div 100)

-----------------------------------------------------------------------------
(* geminiultramario1.x.py: Player                                          *)

GemSetSize(state) == IF state = SMALL THEN 20 ELSE 40

GemResetPosition(p) ==
    [p EXCEPT !.rect.x = 100, !.rect.y = GemSCREEN_HEIGHT - 150,
              !.vel_x = 0, !.vel_y = 0]

\* die() without reset_position()
GemDie_StaysPut(p) ==
    [p EXCEPT !.lives = @ - 1, !.state = SMALL, !.rect.h = GemSetSize(SMALL)]

GemDie(p) ==
    LET q == GemResetPosition([p EXCEPT !.lives = @ - 1])
    IN  [q EXCEPT !.state = SMALL, !.rect.h = GemSetSize(SMALL)]

GemHit(p) ==
    IF p.state = SMALL THEN GemDie(p)
    ELSE LET y_pos == RBottom(p.rect)
         IN  [p EXCEPT !.state = SMALL,
                       !.rect = SetBottom([p.rect EXCEPT !.h = GemSetSize(SMALL)], y_pos),
                       !.invincible_timer = GemInvincibleFrames]

GemPowerUp(p, new_state) ==
    IF p.state < new_state
    THEN LET y_pos == RBottom(p.rect)
         IN  [p EXCEPT !.state = new_state,
                       !.rect = SetBottom([p.rect EXCEPT !.h = GemSetSize(new_state)], y_pos),
                       !.score = @ + 1000]
    ELSE p

\* Player.jump; the session s carries the player p and the events ev.
GemJump(s) ==
    IF s.p.on_ground \/ s.p.coyote_time > 0
    THEN [s EXCEPT !.p.vel_y = Cent(GemJUMP_VELOCITY), !.ev.jumped = TRUE]
    ELSE s

\* Block.hit
GemBlockHit(b, is_super) ==
    IF b.type = "USED" THEN b
    ELSE IF b.type = "BRICK"
         THEN (IF is_super THEN [b EXCEPT !.type = "USED"]
                           ELSE [b EXCEPT !.is_hit = TRUE, !.hit_timer = GemBounceFrames])
    ELSE IF b.type = "QUESTION"
         THEN [b EXCEPT !.is_hit = TRUE, !.hit_timer = GemBounceFrames, !.type = "USED"]
    ELSE b

RECURSIVE GemCheckCollisionX(_, _)
GemCheckCollisionX(s, i) ==
    IF i > Len(s.wo) THEN s
    ELSE LET obj == s.wo[i]
             p == s.p
         IN  IF colliderect(p.rect, obj.rect)
             THEN GemCheckCollisionX(
                    [s EXCEPT !.p.rect = IF p.vel_x > 0 THEN SetRight(p.rect, RLeft(obj.rect))
                                         ELSE IF p.vel_x < 0 THEN SetLeft(p.rect, RRight(obj.rect))
                                         ELSE p.rect,
                              !.p.vel_x = 0], i + 1)
             ELSE GemCheckCollisionX(s, i + 1)

RECURSIVE GemCheckCollisionY(_, _)
GemCheckCollisionY(s, i) ==
    IF i > Len(s.wo) THEN s
    ELSE LET obj == s.wo[i]
             p == s.p
         IN  IF colliderect(p.rect, obj.rect)
             THEN IF p.vel_y > 0
                  THEN GemCheckCollisionY(
                         [s EXCEPT !.p.rect = SetBottom(p.rect, RTop(obj.rect)),
                                   !.p.on_ground = TRUE, !.p.vel_y = 0], i + 1)
                  ELSE IF p.vel_y < 0
                  THEN GemCheckCollisionY(
                         [s EXCEPT !.p.rect = SetTop(p.rect, RBottom(obj.rect)),
                                   !.p.vel_y = 0,
                                   !.wo[i] = IF obj.type \in {"BRICK", "QUESTION"}
                                             THEN [GemBlockHit(obj, p.state # SMALL)
                                                     EXCEPT !.struck = Min(@ + 1, StruckCap)]
                                             ELSE [obj EXCEPT !.struck = Min(@ + 1, StruckCap)]],
                         i + 1)
                  ELSE GemCheckCollisionY(s, i + 1)
             ELSE GemCheckCollisionY(s, i + 1)

\* handle_enemy_collisions without the test of invincible_timer
RECURSIVE GemHandleEnemyCollisions_NoShield(_, _)
GemHandleEnemyCollisions_NoShield(s, i) ==
    IF i > Len(s.en) THEN s
    ELSE LET enemy == s.en[i]
             p == s.p
         IN  IF colliderect(p.rect, enemy.rect)
             THEN IF p.vel_y > 0 /\ RBottom(p.rect) < RCenterY(enemy.rect)
                  THEN GemHandleEnemyCollisions_NoShield(
                         [s EXCEPT !.p.vel_y = (Cent(GemJUMP_VELOCITY) * 6) \div 10,
                                   !.p.score = @ + 100,
                                   !.en[i].is_stomped = TRUE,
                                   !.ev.stomps = @ + 1], i + 1)
                  ELSE LET q == GemHit(p)
                       IN  GemHandleEnemyCollisions_NoShield(
                             [s EXCEPT !.p = q,
                                       !.ev.hurts = Append(@, [from |-> p.state, to |-> q.state,
                                                               timer |-> q.invincible_timer,
                                                               lives |-> q.lives - p.lives])],
                             i + 1)
             ELSE GemHandleEnemyCollisions_NoShield(s, i + 1)

RECURSIVE GemHandleEnemyCollisions(_, _)
GemHandleEnemyCollisions(s, i) ==
    IF i > Len(s.en) THEN s
    ELSE LET enemy == s.en[i]
             p == s.p
             Met(t) ==
                 [t EXCEPT !.ev.contacts =
                     Append(@, [i |-> i, enemy |-> enemy.rect,
                                vel_y |-> p.vel_y, bottom |-> RBottom(p.rect),
                                centery |-> RCenterY(enemy.rect),
                                timer |-> p.invincible_timer,
                                state |-> p.state, lives |-> p.lives,
                                after |-> [vel_y |-> t.p.vel_y, state |-> t.p.state,
                                           lives |-> t.p.lives],
                                was_stomped |-> enemy.is_stomped,
                                is_stomped |-> t.en[i].is_stomped])]
         IN  IF colliderect(p.rect, enemy.rect)
             THEN IF p.vel_y > 0 /\ RBottom(p.rect) < RCenterY(enemy.rect)
                  THEN GemHandleEnemyCollisions(
                         Met([s EXCEPT !.p.vel_y = (Cent(GemJUMP_VELOCITY) * 6) \div 10,
                                       !.p.score = @ + 100,
                                       !.en[i].is_stomped = TRUE,
                                       !.ev.stomps = @ + 1]), i + 1)
                  ELSE IF p.invincible_timer = 0
                  THEN LET q == GemHit(p)
                       IN  GemHandleEnemyCollisions(
                             Met([s EXCEPT !.p = q,
                                           !.ev.hurts = Append(@, [from |-> p.state, to |-> q.state,
                                                                   timer |-> q.invincible_timer,
                                                                   lives |-> q.lives - p.lives])]),
                             i + 1)
                  ELSE GemHandleEnemyCollisions(Met(s), i + 1)
             ELSE GemHandleEnemyCollisions(s, i + 1)

\* the coin loop with the roll-over one coin late
RECURSIVE GemCollectCoins_LateRollOver(_, _, _, _)
GemCollectCoins_LateRollOver(p, snapshot, i, taken) ==
    IF i > Len(snapshot) THEN [p |-> p, taken |-> taken]
    ELSE IF colliderect(p.rect, snapshot[i].rect)
         THEN LET c1 == p.coins + 1
                  q == [p EXCEPT !.coins = IF c1 > 100 THEN 0 ELSE c1,
                                 !.score = @ + 50,
                                 !.lives = IF c1 > 100 THEN @ + 1 ELSE @]
              IN  GemCollectCoins_LateRollOver(q, snapshot, i + 1, taken \cup {i})
         ELSE GemCollectCoins_LateRollOver(p, snapshot, i + 1, taken)

\* the coin loop of handle_item_collection, over the snapshot coins[:]
RECURSIVE GemCollectCoins(_, _, _, _)
GemCollectCoins(p, snapshot, i, taken) ==
    IF i > Len(snapshot) THEN [p |-> p, taken |-> taken]
    ELSE IF colliderect(p.rect, snapshot[i].rect)
         THEN LET c1 == p.coins + 1
                  q == [p EXCEPT !.coins = IF c1 >= 100 THEN 0 ELSE c1,
                                 !.score = @ + 50,
                                 !.lives = IF c1 >= 100 THEN @ + 1 ELSE @]
              IN  GemCollectCoins(q, snapshot, i + 1, taken \cup {i})
         ELSE GemCollectCoins(p, snapshot, i + 1, taken)

\* the item loop of handle_item_collection, over the snapshot items[:]
RECURSIVE GemCollectItems(_, _, _, _)
GemCollectItems(p, snapshot, i, taken) ==
    IF i > Len(snapshot) THEN [p |-> p, taken |-> taken]
    ELSE LET item == snapshot[i]
         IN  IF colliderect(p.rect, item.rect)
             THEN IF item.type = "mushroom" /\ p.state = SMALL
                  THEN GemCollectItems(GemPowerUp(p, SUPER), snapshot, i + 1, taken \cup {i})
                  ELSE IF item.type = "flower"
                  THEN GemCollectItems(GemPowerUp(p, FIRE), snapshot, i + 1, taken \cup {i})
                  ELSE GemCollectItems(p, snapshot, i + 1, taken)
             ELSE GemCollectItems(p, snapshot, i + 1, taken)

GemHandleItemCollection(s) ==
    LET Coins(c) == [s EXCEPT !.p = c.p, !.co = Without(s.co, c.taken, 1)]
        Items(u, c) == [u EXCEPT !.p = c.p, !.it = Without(u.it, c.taken, 1)]
        Both(u) == Items(u, GemCollectItems(u.p, u.it, 1, {}))
    IN  Both(Coins(GemCollectCoins(s.p, s.co, 1, {})))

\* Player.update
\* the coyote countdown reloaded with 5
GemCoyote_Short(p) ==
    IF p.on_ground THEN GemCoyoteFrames - 1
    ELSE IF p.coyote_time > 0 THEN p.coyote_time - 1 ELSE p.coyote_time

\* Player.update: the coyote countdown
GemCoyote(p) ==
    IF p.on_ground THEN GemCoyoteFrames
    ELSE IF p.coyote_time > 0 THEN p.coyote_time - 1 ELSE p.coyote_time

\* the jump buffer without its countdown
GemJumpBuffer_NoCountdown(s) ==
    IF s.p.jump_buffer > 0
    THEN IF s.p.on_ground \/ s.p.coyote_time > 0
         THEN [GemJump(s) EXCEPT !.p.jump_buffer = 0]
         ELSE s
    ELSE s

\* the jump buffer left counting down after the jump is made
GemJumpBuffer_NoClear(s) ==
    IF s.p.jump_buffer > 0
    THEN LET t == [s EXCEPT !.p.jump_buffer = @ - 1]
         IN  IF t.p.on_ground \/ t.p.coyote_time > 0 THEN GemJump(t) ELSE t
    ELSE s

\* Player.update: the jump buffer
GemJumpBuffer(s) ==
    IF s.p.jump_buffer > 0
    THEN LET t == [s EXCEPT !.p.jump_buffer = @ - 1]
         IN  IF t.p.on_ground \/ t.p.coyote_time > 0
             THEN [GemJump(t) EXCEPT !.p.jump_buffer = 0]
             ELSE t
    ELSE s

\* Player.update: the timers (no fireball is shot)
GemTimers(p) == [p EXCEPT !.invincible_timer = IF @ > 0 THEN @ - 1 ELSE @]

\* Player.update: vel_x after acceleration, friction, the speed cap and the
\* dead zone. The friction factors have two decimals: the product is cut to
\* the velocity unit.
GemVelX(p) ==
    LET max_speed == Cent(IF p.running THEN GemMAX_RUN_SPEED ELSE GemMAX_WALK_SPEED)
        Clamp(v) == Max(-max_speed, Min(max_speed, v))
        DeadZone(v) == IF Abs(v) < Cent(10) THEN 0 ELSE v
    IN  DeadZone(Clamp(TruncDiv((p.vel_x + p.acc_x)
                                  * (IF p.on_ground THEN GemFRICTION ELSE GemAIR_FRICTION),
                                100)))

\* Player.update: the horizontal move and check_collision_x
GemPlayerX(s) ==
    LET Move(p, vx) == [p EXCEPT !.vel_x = vx, !.rect.x = AddTrunc(@, vx)]
        Go(p) == Move(p, GemVelX(p))
    IN  GemCheckCollisionX([s EXCEPT !.p = Go(GemTimers(s.p))], 1)

\* the vertical move without "self.on_ground = False"
GemPlayerY_KeepsFlag(s) ==
    LET Move(p, vy) == [p EXCEPT !.vel_y = vy, !.rect.y = AddTrunc(@, vy),
                                 !.coyote_time = GemCoyote(p)]
        Go(p) == Move(p, Min(p.vel_y + Cent(GemGRAVITY), Cent(GemMAX_FALL_SPEED)))
    IN  GemCheckCollisionY([s EXCEPT !.p = Go(s.p)], 1)

\* Player.update: gravity, the vertical move, the coyote countdown and
\* check_collision_y
GemPlayerY(s) ==
    LET Move(p, vy) == [p EXCEPT !.vel_y = vy, !.rect.y = AddTrunc(@, vy),
                                 !.coyote_time = GemCoyote(p), !.on_ground = FALSE]
        Go(p) == Move(p, Min(p.vel_y + Cent(GemGRAVITY), Cent(GemMAX_FALL_SPEED)))
    IN  GemCheckCollisionY([s EXCEPT !.p = Go(s.p)], 1)

\* a fall check that spares a player whose invincibility countdown runs
GemFell_Shielded(s) ==
    IF RTop(s.p.rect) > GemSCREEN_HEIGHT + 100 /\ s.p.invincible_timer = 0
    THEN [s EXCEPT !.p = GemDie(s.p), !.ev.fell = TRUE]
    ELSE s

\* Player.update: below the screen
GemFell(s) ==
    IF RTop(s.p.rect) > GemSCREEN_HEIGHT + 100
    THEN [s EXCEPT !.p = GemDie(s.p), !.ev.fell = TRUE]
    ELSE s

\* Player.update
GemPlayerUpdate(s0) ==
    GemHandleItemCollection(
        GemHandleEnemyCollisions(GemFell(GemJumpBuffer(GemPlayerY(GemPlayerX(s0)))), 1))

-----------------------------------------------------------------------------
(* geminiultramario1.x.py: Enemy, Block, Item, Coin                        *)

GemEnemy(x, y) ==
    [rect |-> Rect(x, y, 22, 22), vel_x |-> Cent(-150), vel_y |-> 0,
     is_stomped |-> FALSE, stomp_timer |-> GemStompFrames]

\* item, kind0 and item0 as loaded; spawned and struck count what happened
\* to the block (observations, not fields of Block).
GemBlock(x, y, block_type, item) ==
    [rect |-> Rect(x, y, 24, 24), type |-> block_type, original_y |-> y,
     is_hit |-> FALSE, hit_timer |-> 0, item |-> item,
     kind0 |-> block_type, item0 |-> item, spawned |-> 0, struck |-> 0]

GemItem(x, y, item_type) ==
    [type |-> item_type, rect |-> Rect(x, y, 20, 20), vel_x |-> Cent(200), vel_y |-> 0]

GemCoin(x, y) == [rect |-> Rect(x, y, 16, 20)]

RECURSIVE GemEnemyCollX(_, _, _)
GemEnemyCollX(e, wo, i) ==
    IF i > Len(wo) THEN e
    ELSE IF colliderect(e.rect, wo[i].rect)
         THEN GemEnemyCollX(
                [e EXCEPT !.rect = IF e.vel_x > 0 THEN SetRight(e.rect, RLeft(wo[i].rect))
                                   ELSE SetLeft(e.rect, RRight(wo[i].rect)),
                          !.vel_x = -e.vel_x], wo, i + 1)
         ELSE GemEnemyCollX(e, wo, i + 1)

\* the vertical loop shared by Enemy.update and Item.update
RECURSIVE GemLandY(_, _, _)
GemLandY(e, wo, i) ==
    IF i > Len(wo) THEN e
    ELSE IF colliderect(e.rect, wo[i].rect) /\ e.vel_y > 0
         THEN GemLandY([e EXCEPT !.rect = SetBottom(e.rect, RTop(wo[i].rect)),
                                 !.vel_y = 0], wo, i + 1)
         ELSE GemLandY(e, wo, i + 1)

\* Enemy.update
GemEnemyUpdate(e, wo) ==
    IF e.is_stomped THEN [e EXCEPT !.stomp_timer = @ - 1]
    ELSE LET Fall(vy) == [e EXCEPT !.vel_y = vy, !.rect.x = AddTrunc(@, e.vel_x)]
             Down(f) == [f EXCEPT !.rect.y = AddTrunc(@, f.vel_y)]
         IN  GemLandY(Down(GemEnemyCollX(
                 Fall(Min(e.vel_y + Cent(GemGRAVITY), Cent(GemMAX_FALL_SPEED))), wo, 1)), wo, 1)

RECURSIVE GemItemCollX(_, _, _)
GemItemCollX(it, wo, i) ==
    IF i > Len(wo) THEN it
    ELSE IF colliderect(it.rect, wo[i].rect)
         THEN GemItemCollX([it EXCEPT !.vel_x = -it.vel_x], wo, i + 1)
         ELSE GemItemCollX(it, wo, i + 1)

\* Item.update
GemItemUpdate(it, wo) ==
    LET Fall(vy) == [it EXCEPT !.vel_y = vy, !.rect.x = AddTrunc(@, it.vel_x)]
        Down(f) == [f EXCEPT !.rect.y = AddTrunc(@, f.vel_y)]
    IN  GemLandY(Down(GemItemCollX(
            Fall(Min(it.vel_y + (Cent(GemGRAVITY) * 7) \div 10, Cent(GemMAX_FALL_SPEED))),
            wo, 1)), wo, 1)

\* int(original_y - math.sin((hit_timer / 6) * math.pi) * 4) - original_y, negated
GemBounceOffset(hit_timer) ==
    CASE hit_timer = 5 -> 2
      [] hit_timer = 4 -> 4
      [] hit_timer = 3 -> 4
      [] hit_timer = 2 -> 4
      [] hit_timer = 1 -> 2
      [] OTHER -> 0

\* Block.update
GemBlockUpdate(b) ==
    IF b.is_hit
    THEN LET t == b.hit_timer - 1
         IN  IF t <= 0
             THEN [b EXCEPT !.hit_timer = t, !.is_hit = FALSE, !.rect.y = b.original_y]
             ELSE [b EXCEPT !.hit_timer = t, !.rect.y = b.original_y - GemBounceOffset(t)]
    ELSE b

\* the spawn pass without "block.item = None"
GemSpawnFrom_KeepsItem(b) ==
    IF b.type = "USED" /\ b.item # "none"
    THEN [block |-> [b EXCEPT !.spawned = @ + 1],
          coins |-> IF b.item = "coin" THEN <<GemCoin(b.rect.x, b.rect.y - 30)>> ELSE <<>>,
          items |-> IF b.item = "coin" THEN <<>>
                    ELSE <<GemItem(b.rect.x, b.rect.y - 25, b.item)>>]
    ELSE [block |-> b, coins |-> <<>>, items |-> <<>>]

\* "Spawn items from blocks": one pass of the loop of LevelManager.update
GemSpawnFrom(b) ==
    IF b.type = "USED" /\ b.item # "none"
    THEN [block |-> [b EXCEPT !.item = "none", !.spawned = @ + 1],
          coins |-> IF b.item = "coin" THEN <<GemCoin(b.rect.x, b.rect.y - 30)>> ELSE <<>>,
          items |-> IF b.item = "coin" THEN <<>>
                    ELSE <<GemItem(b.rect.x, b.rect.y - 25, b.item)>>]
    ELSE [block |-> b, coins |-> <<>>, items |-> <<>>]

RECURSIVE GemBlocksPass(_, _)
GemBlocksPass(s, i) ==
    IF i > Len(s.wo) THEN s
    ELSE LET Put(r) == [s EXCEPT !.wo[i] = r.block,
                                 !.co = @ \o r.coins,
                                 !.it = @ \o r.items]
         IN  GemBlocksPass(Put(GemSpawnFrom(GemBlockUpdate(s.wo[i]))), i + 1)

\* an enemy loop that removes an enemy one update early
RECURSIVE GemEnemiesPass_Early(_, _, _)
GemEnemiesPass_Early(snapshot, wo, i) ==
    IF i > Len(snapshot) THEN <<>>
    ELSE LET Keep(e) == IF e.stomp_timer <= 1 THEN <<>> ELSE <<e>>
         IN  Keep(GemEnemyUpdate(snapshot[i], wo)) \o GemEnemiesPass_Early(snapshot, wo, i + 1)

\* the enemy loop of LevelManager.update, over the snapshot enemies[:]
RECURSIVE GemEnemiesPass(_, _, _)
GemEnemiesPass(snapshot, wo, i) ==
    IF i > Len(snapshot) THEN <<>>
    ELSE LET Keep(e) == IF e.stomp_timer <= 0 THEN <<>> ELSE <<e>>
         IN  Keep(GemEnemyUpdate(snapshot[i], wo)) \o GemEnemiesPass(snapshot, wo, i + 1)

\* LevelManager.update (fireballs are never shot: the fire key is not pressed)
GemLevelUpdate(s0, level_width) ==
    LET Others(s) == [s EXCEPT !.en = GemEnemiesPass(s.en, s.wo, 1),
                               !.it = [k \in 1..Len(s.it) |-> GemItemUpdate(s.it[k], s.wo)]]
        Result(s) == [s EXCEPT !.mode = IF s.p.rect.x > level_width - 60 THEN "OVERWORLD"
                                        ELSE IF s.p.lives <= 0 THEN "GAME_OVER"
                                        ELSE "LEVEL"]
    IN  Result(Others(GemBlocksPass(GemPlayerUpdate(s0), 1)))

\* LevelManager.load_level
RECURSIVE GemGround(_, _)
GemGround(i, length) ==
    IF i >= length THEN <<>>
    ELSE <<GemBlock(i * 24, GemSCREEN_HEIGHT - 24, "GROUND", "none"),
           GemBlock(i * 24, GemSCREEN_HEIGHT - 48, "GROUND", "none")>>
         \o GemGround(i + 1, length)

RECURSIVE GemLayout(_, _, _)
GemLayout(objects, kind, i) ==
    IF i > Len(objects) THEN <<>>
    ELSE LET obj == objects[i]
         IN  (IF obj.type # kind THEN <<>>
              ELSE IF kind = "block"
                   THEN <<GemBlock(obj.x, obj.y, obj.block_type, obj.item)>>
                   ELSE <<GemEnemy(obj.x, obj.y)>>)
             \o GemLayout(objects, kind, i + 1)

GemLoadLevel(level_data) ==
    [wo |-> GemGround(0, level_data.length) \o GemLayout(level_data.objects, "block", 1),
     en |-> GemLayout(level_data.objects, "enemy", 1),
     co |-> <<>>, it |-> <<>>]

-----------------------------------------------------------------------------
(* geminiultramario1.x.py: level_data inputs, main()                       *)

\* level_data is read from a module outside the program: small levels of the
\* same shape as worlds[w][l].
GemLevelOverhead ==
    [length |-> 7,
     objects |-> << [type |-> "block", x |-> 100, y |-> 306,
                     block_type |-> "QUESTION", item |-> "coin"] >>]

\* a brick over the start position
GemLevelBrick ==
    [length |-> 7,
     objects |-> << [type |-> "block", x |-> 100, y |-> 306,
                     block_type |-> "BRICK", item |-> "none"] >>]

GemLevelMushroom ==
    [length |-> 9,
     objects |-> << [type |-> "block", x |-> 100, y |-> 306,
                     block_type |-> "QUESTION", item |-> "mushroom"],
                    [type |-> "block", x |-> 192, y |-> 408,
                     block_type |-> "PIPE", item |-> "none"] >>]

GemLevelLedge ==
    [length |-> 9,
     objects |-> << [type |-> "block", x |-> 96, y |-> 350,
                     block_type |-> "BRICK", item |-> "none"] >>]

GemLevelEnemy ==
    [length |-> 7,
     objects |-> << [type |-> "enemy", x |-> 146, y |-> 410] >>]

\* two enemies that walk to and fro between two pipes, across the start
\* position
GemLevelPen ==
    [length |-> 9,
     objects |-> << [type |-> "block", x |-> 48, y |-> 408,
                     block_type |-> "PIPE", item |-> "none"],
                    [type |-> "block", x |-> 192, y |-> 408,
                     block_type |-> "PIPE", item |-> "none"],
                    [type |-> "enemy", x |-> 146, y |-> 410],
                    [type |-> "enemy", x |-> 150, y |-> 410] >>]

\* an enemy between the start position and the left end of the ground, which
\* a player walking left runs into from behind
GemLevelAmbush ==
    [length |-> 7,
     objects |-> << [type |-> "enemy", x |-> 40, y |-> 410] >>]

\* Player.__init__ followed by LevelManager.__init__ (player.reset_position).
\* The Player object outlives the levels: tier and lives are whatever earlier
\* levels left, and so are on_ground and coyote_time (carry).
GemPlayer(state, lives, carry) ==
    GemResetPosition(
        [rect |-> Rect(50, GemSCREEN_HEIGHT - 100, 20, GemSetSize(state)),
         vel_x |-> 0, vel_y |-> 0, acc_x |-> 0,
         on_ground |-> carry.on_ground, running |-> FALSE,
         state |-> state, invincible_timer |-> carry.invincible_timer,
         jump_buffer |-> 0, coyote_time |-> carry.coyote_time,
         lives |-> lives, coins |-> 0, score |-> 0])

\* on_ground and coyote_time at the end of an update, with the number of
\* updates since the last one that ended with ground contact: a new Player,
\* and one that left the previous level standing on the ground.
\* CarryHit: one that was hit 20 updates before it finished the previous level
\* (the countdown runs only inside Player.update and no level entry resets it).
CarryNew == [on_ground |-> FALSE, coyote_time |-> 0, since |-> SinceCap,
             invincible_timer |-> 0]
CarryGround == [on_ground |-> TRUE, coyote_time |-> 5, since |-> 0,
                invincible_timer |-> 0]
CarryHit == [on_ground |-> TRUE, coyote_time |-> 5, since |-> 0,
             invincible_timer |-> 100]

\* The sessions the runs start from: the level entered, the Player as earlier
\* levels left it, the direction key the user holds and the number of jump
\* key-downs the user makes.
GemSessions ==
    [level_data : {GemLevelOverhead}, state : {SMALL, SUPER}, lives : {1},
     carry : {CarryNew}, dir : {0}, jumps : {MaxJumps}]
    \cup
    [level_data : {GemLevelMushroom, GemLevelBrick}, state : {SMALL}, lives : {1},
     carry : {CarryNew}, dir : {0}, jumps : {MaxJumps}]
    \cup
    [level_data : {GemLevelLedge}, state : {SMALL}, lives : {1},
     carry : {CarryNew, CarryGround}, dir : {0}, jumps : {MaxJumps}]
    \cup
    [level_data : {GemLevelLedge}, state : {SMALL}, lives : {1},
     carry : {CarryNew, CarryGround}, dir : {1}, jumps : {MaxJumpsMoving}]
    \cup
    [level_data : {GemLevelEnemy}, state : Tiers, lives : 1..MaxLives,
     carry : {CarryNew}, dir : {0}, jumps : {MaxJumpsMoving}]
    \cup
    [level_data : {GemLevelPen}, state : Tiers, lives : {1},
     carry : {CarryNew}, dir : {0}, jumps : {0, MaxJumpsMoving}]
    \cup
    [level_data : {GemLevelAmbush}, state : Tiers, lives : 1..MaxLives,
     carry : {CarryNew}, dir : {-1}, jumps : {0}]

\* What the run has shown, kept beside the program's state:
\*   keydown  the update just made processed a jump key-down
\*   k        that update was the k-th after the last one with ground contact
\*   since    updates made after the last one with ground contact
\*   age      updates made since the latest jump key-down, its own included
\*            (0: no key-down yet)
\*   landed   one of those updates ended with ground contact
\*   first    the update just made is the first of them to do so
\*   ev       what the update just made did
\*   before   the player as that update found it
\*   contact  an update ended with ground contact since the latest jump, the
\*            update of that jump included; or the player has been put back
\*            at the start since; or there has been no jump
\*   midair   the update just made made a jump, and no update since the jump
\*            before it has ended with ground contact (this one included)
Observe(keydown, k, since, age, landed, first, ev, before) ==
    [keydown |-> keydown, k |-> k, since |-> since, age |-> age, landed |-> landed,
     first |-> first, ev |-> ev, before |-> before, contact |-> TRUE, midair |-> FALSE]

Since(old, on_ground) == IF on_ground THEN 0 ELSE Min(old + 1, SinceCap)

Step(jumpKey, on_ground, ev, before) ==
    LET age == IF jumpKey THEN 1
               ELSE IF obs.age = 0 THEN 0 ELSE Min(obs.age + 1, AgeCap)
        earlier == ~jumpKey /\ obs.landed
        restart == ev.fell \/ ev.hurts # <<>>
    IN  [Observe(jumpKey, Min(obs.since + 1, SinceCap), Since(obs.since, on_ground), age,
                 age > 0 /\ (earlier \/ on_ground),
                 age > 0 /\ on_ground /\ ~earlier, ev, before)
            EXCEPT !.contact = IF restart THEN TRUE
                               ELSE IF ev.jumped THEN on_ground
                               ELSE obs.contact \/ on_ground,
                   !.midair = ev.jumped /\ ~obs.contact /\ ~on_ground]

InitGem ==
    /\ prog = "gemini"
    /\ mode = "LEVEL"
    /\ \E ses \in GemSessions :
          LET lv == GemLoadLevel(ses.level_data)
          IN  /\ player = GemPlayer(ses.state, ses.lives, ses.carry)
              /\ world = [wo |-> lv.wo, level_width |-> ses.level_data.length * 24]
              /\ enemies = lv.en
              /\ coins = lv.co
              /\ items = lv.it
              /\ input = [dir |-> ses.dir, jumps |-> ses.jumps]
              /\ obs = Observe(FALSE, ses.carry.since, ses.carry.since, 0, FALSE, FALSE,
                               NoEvents, player)

\* One pass of the main loop in GameState.LEVEL: the key snapshot sets acc_x,
\* a jump key-down arms the buffer, then LevelManager.update runs.
\* runKey: the events hold a key-down of LSHIFT or z, handled after the
\* snapshot has set acc_x; after: the user's keys as the frame leaves them.
GemMainLevelEvents(jumpKey, runKey, after) ==
    LET Keys(p) == [p EXCEPT !.acc_x = input.dir * Cent(IF p.running THEN GemRUN_ACCEL
                                                                  ELSE GemWALK_ACCEL),
                             !.jump_buffer = IF jumpKey THEN GemJumpBufferFrames ELSE @,
                             !.running = IF runKey THEN TRUE ELSE @]
        Session(p) == [p |-> p, wo |-> world.wo, en |-> enemies, co |-> coins,
                       it |-> items, ev |-> NoEvents, mode |-> mode]
        Commit(s) ==
            /\ player' = s.p
            /\ world' = [world EXCEPT !.wo = s.wo]
            /\ enemies' = s.en
            /\ coins' = s.co
            /\ items' = s.it
            /\ mode' = s.mode
            /\ input' = [after EXCEPT !.jumps = IF jumpKey THEN @ - 1 ELSE @]
            /\ obs' = Step(jumpKey, s.p.on_ground, s.ev, Keys(player))
            /\ UNCHANGED prog
    IN  Commit(GemLevelUpdate(Session(Keys(player)), world.level_width))

\* the pass with no run key among its events
GemMainLevel(jumpKey) == GemMainLevelEvents(jumpKey, FALSE, input)

\* nothing the model follows has left the screen for good
GemInView ==
    /\ \A k \in 1..Len(enemies) : RTop(enemies[k].rect) <= GemSCREEN_HEIGHT
    /\ \A k \in 1..Len(items) : RTop(items[k].rect) <= GemSCREEN_HEIGHT

GemFrame ==
    /\ prog = "gemini"
    /\ mode = "LEVEL"
    /\ GemInView
    /\ GemMainLevel(FALSE)

GemFrameJumpKey ==
    /\ prog = "gemini"
    /\ mode = "LEVEL"
    /\ GemInView
    /\ input.jumps > 0
    /\ GemMainLevel(TRUE)

NextGem == GemFrame \/ GemFrameJumpKey

SpecGem == InitGem /\ [][NextGem]_vars

\* Run key-downs a user makes
MaxRuns == 1

\* Users with a run key: they walk right or left over the ledge level, on
\* the ground and through the air of a jump
GemRunSessions ==
    [level_data : {GemLevelLedge}, state : {SMALL}, lives : {1}, carry : {CarryNew},
     dir : {-1, 1}, jumps : {MaxJumpsMoving}, shift : {FALSE}, runs : {MaxRuns}]

InitGemRun ==
    /\ prog = "gemini"
    /\ mode = "LEVEL"
    /\ \E ses \in GemRunSessions :
          LET lv == GemLoadLevel(ses.level_data)
          IN  /\ player = GemPlayer(ses.state, ses.lives, ses.carry)
              /\ world = [wo |-> lv.wo, level_width |-> ses.level_data.length * 24]
              /\ enemies = lv.en
              /\ coins = lv.co
              /\ items = lv.it
              /\ input = [dir |-> ses.dir, jumps |-> ses.jumps, shift |-> ses.shift,
                          runs |-> ses.runs]
              /\ obs = Observe(FALSE, ses.carry.since, ses.carry.since, 0, FALSE, FALSE,
                               NoEvents, player)

\* a frame whose events hold the key-down of the run key
GemFrameRunKey ==
    /\ prog = "gemini"
    /\ mode = "LEVEL"
    /\ GemInView
    /\ ~input.shift
    /\ input.runs > 0
    /\ GemMainLevelEvents(FALSE, TRUE, [input EXCEPT !.shift = TRUE, !.runs = @ - 1])

\* a frame whose events hold the key-up of the run key: main has no handler
\* for it
GemFrameRunKeyUp ==
    /\ prog = "gemini"
    /\ mode = "LEVEL"
    /\ GemInView
    /\ input.shift
    /\ GemMainLevelEvents(FALSE, FALSE, [input EXCEPT !.shift = FALSE])

SpecGemRun == InitGemRun /\ [][NextGem \/ GemFrameRunKey \/ GemFrameRunKeyUp]_vars

-----------------------------------------------------------------------------
(* ultra_mario_forever_1_0a.py: Player                                     *)

\* hundredths, as in the gemini constants
FvrSCREEN_WIDTH == 600
FvrSCREEN_HEIGHT == 400
FvrGRAVITY == 98
FvrMAX_FALL_SPEED == 1200
FvrJUMP_VELOCITY == -1250
FvrWALK_ACCEL == 35
FvrRUN_ACCEL == 50
FvrMAX_WALK_SPEED == 350
FvrMAX_RUN_SPEED == 550
FvrFRICTION == 89
FvrAIR_FRICTION == 95
FvrCoyoteFrames == 6
FvrJumpBufferFrames == 6
FvrInvincibleFrames == 120

FvrResetPosition(p) ==
    [p EXCEPT !.rect.x = 50, !.rect.y = FvrSCREEN_HEIGHT - 100,
              !.vel_x = 0, !.vel_y = 0, !.p_meter = 0]

FvrDie(p) ==
    [FvrResetPosition(p) EXCEPT !.lives = @ - 1, !.state = SMALL, !.rect.h = 16]

FvrHit(p) ==
    IF p.state = SMALL THEN FvrDie(p)
    ELSE [p EXCEPT !.state = SMALL, !.rect.h = 16,
                   !.invincible_timer = FvrInvincibleFrames]

FvrPowerUp(p) ==
    [p EXCEPT !.state = SUPER, !.rect.h = 32, !.rect.y = @ - 16, !.score = @ + 1000]

FvrJump(s) ==
    IF s.p.on_ground \/ s.p.coyote_time > 0
    THEN [s EXCEPT !.p.vel_y = IF s.p.p_meter >= 100
                               THEN (Cent(FvrJUMP_VELOCITY) * 12) \div 10
                               ELSE Cent(FvrJUMP_VELOCITY),
                   !.ev.jumped = TRUE]
    ELSE s

RECURSIVE FvrCheckCollisionX(_, _)
FvrCheckCollisionX(s, i) ==
    IF i > Len(s.wo) THEN s
    ELSE IF colliderect(s.p.rect, s.wo[i])
         THEN FvrCheckCollisionX(
                [s EXCEPT !.p.rect = IF s.p.vel_x > 0 THEN SetRight(@, RLeft(s.wo[i]))
                                     ELSE IF s.p.vel_x < 0 THEN SetLeft(@, RRight(s.wo[i]))
                                     ELSE @,
                          !.p.vel_x = 0], i + 1)
         ELSE FvrCheckCollisionX(s, i + 1)

RECURSIVE FvrCheckCollisionY(_, _)
FvrCheckCollisionY(s, i) ==
    IF i > Len(s.wo) THEN s
    ELSE IF colliderect(s.p.rect, s.wo[i])
         THEN IF s.p.vel_y > 0
              THEN FvrCheckCollisionY(
                     [s EXCEPT !.p.rect = SetBottom(@, RTop(s.wo[i])),
                               !.p.on_ground = TRUE, !.p.vel_y = 0], i + 1)
              ELSE IF s.p.vel_y < 0
              THEN FvrCheckCollisionY(
                     [s EXCEPT !.p.rect = SetTop(@, RBottom(s.wo[i])),
                               !.p.vel_y = 0], i + 1)
              ELSE FvrCheckCollisionY(s, i + 1)
         ELSE FvrCheckCollisionY(s, i + 1)

\* Player.update: the invincibility timer and the P-meter
FvrTimers(p) ==
    [p EXCEPT !.invincible_timer = IF @ > 0 THEN @ - 1 ELSE @,
              !.p_meter = IF p.running THEN Min(@ + 2, 100) ELSE Max(@ - 1, 0)]

\* Player.update: vel_x after acceleration, friction and the speed cap
FvrVelX(p) ==
    LET max_speed == Cent(IF p.running THEN FvrMAX_RUN_SPEED ELSE FvrMAX_WALK_SPEED)
    IN  Max(-max_speed,
            Min(max_speed,
                TruncDiv((p.vel_x + p.acc_x)
                           * (IF p.on_ground THEN FvrFRICTION ELSE FvrAIR_FRICTION), 100)))

FvrPlayerX(s) ==
    LET Move(p, vx) == [p EXCEPT !.vel_x = vx, !.rect.x = AddTrunc(@, vx)]
        Go(p) == Move(p, FvrVelX(p))
    IN  FvrCheckCollisionX([s EXCEPT !.p = Go(FvrTimers(s.p))], 1)

\* Player.update: the coyote countdown
FvrCoyote(p) ==
    IF p.on_ground THEN FvrCoyoteFrames
    ELSE IF p.coyote_time > 0 THEN p.coyote_time - 1 ELSE p.coyote_time

FvrPlayerY(s) ==
    LET Move(p, vy) == [p EXCEPT !.vel_y = vy, !.rect.y = AddTrunc(@, vy),
                                 !.coyote_time = FvrCoyote(p), !.on_ground = FALSE]
        Go(p) == Move(p, Min(p.vel_y + Cent(FvrGRAVITY), Cent(FvrMAX_FALL_SPEED)))
    IN  FvrCheckCollisionY([s EXCEPT !.p = Go(s.p)], 1)

\* Player.update: the jump buffer
FvrJumpBuffer(s) ==
    IF s.p.jump_buffer > 0
    THEN LET t == [s EXCEPT !.p.jump_buffer = @ - 1]
         IN  IF t.p.on_ground
             THEN [FvrJump(t) EXCEPT !.p.jump_buffer = 0]
             ELSE t
    ELSE s

\* Player.update: fell off
FvrFell(s) ==
    IF RBottom(s.p.rect) > FvrSCREEN_HEIGHT
    THEN [s EXCEPT !.p = FvrDie(s.p), !.ev.fell = TRUE]
    ELSE s

\* Player.update: the enemy loop, over the snapshot enemies[:]; gone holds
\* the snapshot indices removed so far
RECURSIVE FvrEnemyCollisions(_, _, _, _)
FvrEnemyCollisions(s, snapshot, i, gone) ==
    IF i > Len(snapshot) THEN [s EXCEPT !.en = Without(snapshot, gone, 1)]
    ELSE IF colliderect(s.p.rect, snapshot[i].rect)
         THEN LET Met(t) == [t EXCEPT !.ev.contacts =
                                Append(@, [i |-> i, enemy |-> snapshot[i].rect])]
              IN  IF s.p.vel_y > 0 /\ RBottom(s.p.rect) - 10 < RTop(snapshot[i].rect)
                  THEN FvrEnemyCollisions(
                         Met([s EXCEPT !.p.vel_y = Cent(-800), !.p.score = @ + 100,
                                       !.ev.stomps = @ + 1]), snapshot, i + 1, gone \cup {i})
                  ELSE IF s.p.invincible_timer = 0
                  THEN LET Hurt(q) ==
                             [s EXCEPT !.p = q,
                                       !.ev.hurts = Append(@, [from |-> s.p.state,
                                                               to |-> q.state,
                                                               timer |-> q.invincible_timer,
                                                               lives |-> q.lives - s.p.lives])]
                       IN  FvrEnemyCollisions(Met(Hurt(FvrHit(s.p))), snapshot, i + 1, gone)
                  ELSE FvrEnemyCollisions(Met(s), snapshot, i + 1, gone)
         ELSE FvrEnemyCollisions(s, snapshot, i + 1, gone)

\* the item loop with the mushroom taken at any tier
RECURSIVE FvrCollectItems_AnyTier(_, _, _, _)
FvrCollectItems_AnyTier(p, snapshot, i, taken) ==
    IF i > Len(snapshot) THEN [p |-> p, taken |-> taken]
    ELSE IF colliderect(p.rect, snapshot[i].rect)
         THEN IF snapshot[i].type = "mushroom"
              THEN FvrCollectItems_AnyTier(FvrPowerUp(p), snapshot, i + 1, taken \cup {i})
              ELSE IF snapshot[i].type = "flower" /\ p.state # FIRE
              THEN FvrCollectItems_AnyTier([p EXCEPT !.state = FIRE], snapshot, i + 1,
                                           taken \cup {i})
              ELSE FvrCollectItems_AnyTier(p, snapshot, i + 1, taken)
         ELSE FvrCollectItems_AnyTier(p, snapshot, i + 1, taken)

\* Player.update: the item loop, over the snapshot items[:]
RECURSIVE FvrCollectItems(_, _, _, _)
FvrCollectItems(p, snapshot, i, taken) ==
    IF i > Len(snapshot) THEN [p |-> p, taken |-> taken]
    ELSE IF colliderect(p.rect, snapshot[i].rect)
         THEN IF snapshot[i].type = "mushroom" /\ p.state = SMALL
              THEN FvrCollectItems(FvrPowerUp(p), snapshot, i + 1, taken \cup {i})
              ELSE IF snapshot[i].type = "flower" /\ p.state # FIRE
              THEN FvrCollectItems([p EXCEPT !.state = FIRE], snapshot, i + 1,
                                   taken \cup {i})
              ELSE FvrCollectItems(p, snapshot, i + 1, taken)
         ELSE FvrCollectItems(p, snapshot, i + 1, taken)

\* Player.update: the coin loop is gemini's, then the item loop
FvrCollect(s) ==
    LET Coins(c) == [s EXCEPT !.p = c.p, !.co = Without(s.co, c.taken, 1)]
        Items(u, c) == [u EXCEPT !.p = c.p, !.it = Without(u.it, c.taken, 1)]
        Both(u) == Items(u, FvrCollectItems(u.p, u.it, 1, {}))
    IN  Both(Coins(GemCollectCoins(s.p, s.co, 1, {})))

\* Player.update
FvrPlayerUpdate(s0) ==
    LET Enemies(s) == FvrEnemyCollisions(s, s.en, 1, {})
    IN  FvrCollect(Enemies(FvrFell(FvrJumpBuffer(FvrPlayerY(FvrPlayerX(s0))))))

-----------------------------------------------------------------------------
(* ultra_mario_forever_1_0a.py: Enemy, Item, generate_level, main()        *)

FvrEnemy(x, y, enemy_type) ==
    [type |-> enemy_type,
     rect |-> IF enemy_type = "goomba" THEN Rect(x, y, 16, 16) ELSE Rect(x, y, 16, 24),
     vel_x |-> IF enemy_type = "goomba" THEN Cent(-100) ELSE Cent(-80),
     vel_y |-> 0, on_ground |-> FALSE]

FvrItem(x, y, item_type) ==
    [type |-> item_type, rect |-> Rect(x, y, 16, 16), vel_x |-> Cent(100), vel_y |-> 0]

FvrCoin(x, y) == [rect |-> Rect(x, y, 12, 16)]

RECURSIVE FvrEnemyCollX(_, _, _)
FvrEnemyCollX(e, platforms, i) ==
    IF i > Len(platforms) THEN e
    ELSE IF colliderect(e.rect, platforms[i])
         THEN FvrEnemyCollX(
                [e EXCEPT !.rect = IF e.vel_x > 0 THEN SetRight(@, RLeft(platforms[i]))
                                   ELSE SetLeft(@, RRight(platforms[i])),
                          !.vel_x = -e.vel_x], platforms, i + 1)
         ELSE FvrEnemyCollX(e, platforms, i + 1)

RECURSIVE FvrEnemyLandY(_, _, _)
FvrEnemyLandY(e, platforms, i) ==
    IF i > Len(platforms) THEN e
    ELSE IF colliderect(e.rect, platforms[i]) /\ e.vel_y > 0
         THEN FvrEnemyLandY([e EXCEPT !.rect = SetBottom(@, RTop(platforms[i])),
                                      !.on_ground = TRUE, !.vel_y = 0], platforms, i + 1)
         ELSE FvrEnemyLandY(e, platforms, i + 1)

\* Enemy.update
FvrEnemyUpdate(e, platforms) ==
    LET Fall(vy) == [e EXCEPT !.vel_y = vy, !.rect.x = AddTrunc(@, e.vel_x)]
        Down(f) == [f EXCEPT !.rect.y = AddTrunc(@, f.vel_y), !.on_ground = FALSE]
    IN  FvrEnemyLandY(Down(FvrEnemyCollX(
            Fall(Min(e.vel_y + Cent(FvrGRAVITY), Cent(FvrMAX_FALL_SPEED))), platforms, 1)),
            platforms, 1)

RECURSIVE FvrItemCollide(_, _, _)
FvrItemCollide(it, platforms, i) ==
    IF i > Len(platforms) THEN it
    ELSE IF colliderect(it.rect, platforms[i])
         THEN FvrItemCollide(
                [it EXCEPT !.rect = IF it.vel_y > 0 THEN SetBottom(@, RTop(platforms[i]))
                                    ELSE @,
                           !.vel_y = IF it.vel_y > 0 THEN 0 ELSE @,
                           !.vel_x = IF Abs(it.vel_x) > 0 THEN -it.vel_x ELSE @],
                platforms, i + 1)
         ELSE FvrItemCollide(it, platforms, i + 1)

\* Item.update
FvrItemUpdate(it, platforms) ==
    IF it.type = "mushroom"
    THEN LET Move(vy) == [it EXCEPT !.rect.x = AddTrunc(@, it.vel_x), !.vel_y = vy,
                                    !.rect.y = AddTrunc(@, vy)]
         IN  FvrItemCollide(Move(Min(it.vel_y + Cent(FvrGRAVITY), Cent(FvrMAX_FALL_SPEED))),
                            platforms, 1)
    ELSE it

\* generate_level(1, 2)
FvrGenerateLevel ==
    [wo |-> << Rect(0, FvrSCREEN_HEIGHT - 40, FvrSCREEN_WIDTH, 40),
               Rect(80, 300, 48, 16), Rect(160, 260, 64, 16), Rect(260, 220, 80, 16),
               Rect(380, 260, 64, 16), Rect(500, 300, 48, 16) >>,
     en |-> << FvrEnemy(90, 284, "goomba"), FvrEnemy(180, 244, "koopa"),
               FvrEnemy(280, 204, "goomba"), FvrEnemy(400, 244, "goomba") >>,
     co |-> << FvrCoin(165, 230), FvrCoin(265, 190), FvrCoin(385, 230) >>,
     it |-> << FvrItem(160, 244, "mushroom") >>]

\* Player.__init__ and the reset_position of entering a level. The Player
\* object outlives the levels, as in gemini.
FvrPlayer(state, lives, carry) ==
    FvrResetPosition(
        [rect |-> Rect(50, FvrSCREEN_HEIGHT - 100, 16, IF state = SMALL THEN 16 ELSE 32),
         vel_x |-> 0, vel_y |-> 0, acc_x |-> 0,
         on_ground |-> carry.on_ground, running |-> FALSE,
         state |-> state, invincible_timer |-> carry.invincible_timer,
         lives |-> lives, coins |-> 0, score |-> 0,
         jump_buffer |-> 0, coyote_time |-> carry.coyote_time, p_meter |-> 0])

FvrSessions ==
    [state : Tiers, lives : {MaxLives}, carry : {CarryNew, CarryGround},
     dir : {0}, jumps : {MaxJumpsMoving}]
    \cup
    [state : Tiers, lives : {MaxLives}, carry : {CarryNew}, dir : {-1}, jumps : {0}]
    \cup
    [state : {SMALL}, lives : {MaxLives}, carry : {CarryHit}, dir : {-1}, jumps : {0}]

InitFvr ==
    /\ prog = "forever"
    /\ mode = "PLAYING"
    /\ \E ses \in FvrSessions :
          /\ player = FvrPlayer(ses.state, ses.lives, ses.carry)
          /\ world = [wo |-> FvrGenerateLevel.wo, level_width |-> FvrSCREEN_WIDTH]
          /\ enemies = FvrGenerateLevel.en
          /\ coins = FvrGenerateLevel.co
          /\ items = FvrGenerateLevel.it
          /\ input = [dir |-> ses.dir, jumps |-> ses.jumps]
          /\ obs = Observe(FALSE, ses.carry.since, ses.carry.since, 0, FALSE, FALSE,
                           NoEvents, player)

\* the "Update" part of main() in GameMode.PLAYING, after the entities moved:
\* level complete, then death handling (the 400 s level clock does not run out
\* within a run)
FvrAfterUpdate(s, lives_before) ==
    LET Complete(u) ==
            IF RRight(u.p.rect) >= FvrSCREEN_WIDTH - 50
            THEN [u EXCEPT !.mode = "MAP", !.p = FvrResetPosition(u.p)]
            ELSE u
        Death(u) ==
            IF u.p.lives < lives_before
            THEN IF u.p.lives <= 0 THEN [u EXCEPT !.mode = "GAME_OVER"]
                 ELSE [u EXCEPT !.mode = "MAP", !.p = FvrResetPosition(u.p)]
            ELSE u
    IN  Death(Complete(s))

\* One pass of the main loop in GameMode.PLAYING: a jump key-down arms the
\* buffer, the key snapshot sets acc_x, then the entities update.
FvrMainPlaying(jumpKey) ==
    LET Keys(p) == [p EXCEPT !.jump_buffer = IF jumpKey THEN FvrJumpBufferFrames ELSE @,
                             !.acc_x = input.dir * Cent(IF p.running THEN FvrRUN_ACCEL
                                                                  ELSE FvrWALK_ACCEL)]
        Session(p) == [p |-> p, wo |-> world.wo, en |-> enemies, co |-> coins,
                       it |-> items, ev |-> NoEvents, mode |-> mode]
        Others(s) == [s EXCEPT !.en = [k \in 1..Len(s.en) |-> FvrEnemyUpdate(s.en[k], s.wo)],
                               !.it = [k \in 1..Len(s.it) |-> FvrItemUpdate(s.it[k], s.wo)]]
        Commit(s) ==
            /\ player' = s.p
            /\ enemies' = s.en
            /\ coins' = s.co
            /\ items' = s.it
            /\ mode' = s.mode
            /\ input' = [input EXCEPT !.jumps = IF jumpKey THEN @ - 1 ELSE @]
            /\ obs' = Step(jumpKey, s.p.on_ground, s.ev, Keys(player))
            /\ UNCHANGED <<prog, world>>
    IN  Commit(FvrAfterUpdate(Others(FvrPlayerUpdate(Session(Keys(player)))), player.lives))

\* no enemy has fallen out of the screen
FvrInView == \A k \in 1..Len(enemies) : RTop(enemies[k].rect) <= FvrSCREEN_HEIGHT

FvrFrame ==
    /\ prog = "forever"
    /\ mode = "PLAYING"
    /\ FvrInView
    /\ FvrMainPlaying(FALSE)

FvrFrameJumpKey ==
    /\ prog = "forever"
    /\ mode = "PLAYING"
    /\ FvrInView
    /\ input.jumps > 0
    /\ FvrMainPlaying(TRUE)

NextFvr == FvrFrame \/ FvrFrameJumpKey

SpecFvr == InitFvr /\ [][NextFvr]_vars

-----------------------------------------------------------------------------
(* demo1--ultramario.py: Mario, build_level, main()                        *)

DemoSCREEN_W == 640
DemoSCREEN_H == 400
DemoTILE == 24
DemoGRAVITY == 90
DemoMAX_FALL == 1000
DemoJUMP == -1200
DemoACCEL == 35
DemoFRICTION == 86
DemoMAX_SPEED == 420

\* int(self.vely). vely is 0 or JUMP plus a running sum of GRAVITY; the double
\* the code holds after -12 + 10 * 0.9 is -2.9999999999999973 and int() gives
\* -2. Every other sum the two chains reach truncates as its decimal value.
DemoIntVely(v) == IF v = Cent(-300) THEN -2 ELSE TruncDiv(v, Unit)

\* Mario.collide
RECURSIVE DemoCollide(_, _, _, _, _)
DemoCollide(m, blocks, vx, vy, i) ==
    IF i > Len(blocks) THEN m
    ELSE IF colliderect(m.rect, blocks[i])
         THEN LET Right(n) == IF vx > 0 THEN [n EXCEPT !.rect = SetRight(@, RLeft(blocks[i])),
                                                       !.velx = 0] ELSE n
                  Left(n) == IF vx < 0 THEN [n EXCEPT !.rect = SetLeft(@, RRight(blocks[i])),
                                                      !.velx = 0] ELSE n
                  Down(n) == IF vy > 0 THEN [n EXCEPT !.rect = SetBottom(@, RTop(blocks[i])),
                                                      !.vely = 0, !.on_ground = TRUE] ELSE n
                  Up(n) == IF vy < 0 THEN [n EXCEPT !.rect = SetTop(@, RBottom(blocks[i])),
                                                    !.vely = 0] ELSE n
              IN  DemoCollide(Up(Down(Left(Right(m)))), blocks, vx, vy, i + 1)
         ELSE DemoCollide(m, blocks, vx, vy, i + 1)

\* Mario.update; dir is -1 for K_LEFT, 1 for K_RIGHT without K_LEFT, else 0
DemoUpdate(m, dir, space, blocks) ==
    LET Horizontal(n) ==
            [n EXCEPT !.velx = Max(-Cent(DemoMAX_SPEED), Min(Cent(DemoMAX_SPEED),
                                   IF dir = -1 THEN @ - Cent(DemoACCEL)
                                   ELSE IF dir = 1 THEN @ + Cent(DemoACCEL)
                                   ELSE TruncDiv(@ * DemoFRICTION, 100)))]
        Jump(n) == IF n.on_ground /\ space
                   THEN [n EXCEPT !.vely = Cent(DemoJUMP), !.on_ground = FALSE]
                   ELSE n
        Gravity(n) == [n EXCEPT !.vely = Min(@ + Cent(DemoGRAVITY), Cent(DemoMAX_FALL))]
        MoveX(n) == DemoCollide([n EXCEPT !.rect.x = @ + TruncDiv(n.velx, Unit)],
                                blocks, n.velx, 0, 1)
        MoveY(n) == DemoCollide([n EXCEPT !.rect.y = @ + DemoIntVely(n.vely),
                                          !.on_ground = FALSE],
                                blocks, 0, n.vely, 1)
    IN  MoveY(MoveX(Gravity(Jump(Horizontal(m)))))

\* build_level: the ground, then the two pipes of Mario's height
RECURSIVE DemoGround(_)
DemoGround(i) ==
    IF i >= DemoSCREEN_W THEN <<>>
    ELSE <<Rect(i, DemoSCREEN_H - DemoTILE * 2, DemoTILE, DemoTILE * 2)>>
         \o DemoGround(i + DemoTILE)

DemoBuildLevel(mario) ==
    DemoGround(0)
    \o << Rect(200, DemoSCREEN_H - DemoTILE * 2 - mario.rect.h, DemoTILE * 2, mario.rect.h),
          Rect(400, DemoSCREEN_H - DemoTILE * 2 - mario.rect.h, DemoTILE * 2, mario.rect.h) >>

\* Mario.__init__
DemoMario(x, y) ==
    [rect |-> Rect(x, y, 22, 32), velx |-> 0, vely |-> 0, on_ground |-> FALSE]

\* the keys the user holds: a direction for the whole run, K_SPACE in some
\* of its steps
DemoSessions ==
    [dir : {0}, jumps : {MaxJumps}] \cup [dir : {1}, jumps : {MaxJumpsMoving}]

InitDemo ==
    /\ prog = "demo1"
    /\ mode = "LEVEL"
    /\ player = DemoMario(50, DemoSCREEN_H - 100)
    /\ world = [wo |-> DemoBuildLevel(player), level_width |-> DemoSCREEN_W]
    /\ enemies = <<>>
    /\ coins = <<>>
    /\ items = <<>>
    /\ \E ses \in DemoSessions : input = [dir |-> ses.dir, jumps |-> ses.jumps]
    /\ obs = Observe(FALSE, SinceCap, SinceCap, 0, FALSE, FALSE, NoEvents, player)

\* One pass of the main loop in GameState.LEVEL
DemoMain(space) ==
    LET Commit(m) ==
            /\ player' = m
            /\ input' = [input EXCEPT !.jumps = IF space THEN @ - 1 ELSE @]
            /\ obs' = Step(space, m.on_ground,
                           [NoEvents EXCEPT !.jumped = player.on_ground /\ space], player)
            /\ UNCHANGED <<prog, mode, world, enemies, coins, items>>
    IN  Commit(DemoUpdate(player, input.dir, space, world.wo))

\* Mario is followed while on the screen
DemoInView == RTop(player.rect) <= DemoSCREEN_H

DemoFrame ==
    /\ prog = "demo1"
    /\ DemoInView
    /\ DemoMain(FALSE)

DemoFrameSpace ==
    /\ prog = "demo1"
    /\ DemoInView
    /\ input.jumps > 0
    /\ DemoMain(TRUE)

NextDemo == DemoFrame \/ DemoFrameSpace

SpecDemo == InitDemo /\ [][NextDemo]_vars

-----------------------------------------------------------------------------
(* ultramario4k1.x.py: Mario, build_level, Game                            *)

HdrSCREEN_W == 640
HdrSCREEN_H == 480
HdrTILE == 16
HdrGRAVITY == 80
HdrMAX_FALL == 1200
HdrJUMP == -1100
HdrACCEL == 40
HdrFRICTION == 85
HdrMAX_SPEED == 350

clamp(v, lo, hi) == Max(lo, Min(v, hi))

\* int(self.vely). The doubles the code holds after -11 + 5 * 0.8,
\* -11 + 10 * 0.8 and 0 + 10 * 0.8 are -6.999999999999998, -2.999999999999999
\* and 7.999999999999999; every other sum truncates as its decimal value.
HdrIntVely(v) ==
    IF v = Cent(-700) THEN -6
    ELSE IF v = Cent(-300) THEN -2
    ELSE IF v = Cent(800) THEN 7
    ELSE TruncDiv(v, Unit)

\* Mario.collide: the body of the loop, for the solid b
HdrCollideWith(m, b, dx, dy) ==
    IF colliderect(m.rect, b)
    THEN LET Right(n) == IF dx > 0 THEN [n EXCEPT !.rect = SetRight(@, RLeft(b)),
                                                  !.velx = 0] ELSE n
             Left(n) == IF dx < 0 THEN [n EXCEPT !.rect = SetLeft(@, RRight(b)),
                                                 !.velx = 0] ELSE n
             Down(n) == IF dy > 0 THEN [n EXCEPT !.rect = SetBottom(@, RTop(b)),
                                                 !.vely = 0, !.on_ground = TRUE] ELSE n
             Up(n) == IF dy < 0 THEN [n EXCEPT !.rect = SetTop(@, RBottom(b)),
                                               !.vely = 0] ELSE n
         IN  Up(Down(Left(Right(m))))
    ELSE m

\* Mario.collide: the loop over the solids i..j in their order, the first half
\* and then the second. (No rectangle has a negative width: the first test
\* only has m worked out before the solids of the second half are looked at.)
RECURSIVE HdrCollide(_, _, _, _, _, _)
HdrCollide(m, solids, dx, dy, i, j) ==
    IF m.rect.w < 0 \/ i > j THEN m
    ELSE IF i = j THEN HdrCollideWith(m, solids[i], dx, dy)
    ELSE HdrCollide(HdrCollide(m, solids, dx, dy, i, (i + j) \div 2),
                    solids, dx, dy, (i + j) \div 2 + 1, j)

\* Mario.update; dir is -1 for a left key, 1 for a right key without a left
\* key, else 0; jump is K_SPACE, K_w or K_UP held
HdrUpdate(m, dir, jump, solids) ==
    LET Horizontal(n) ==
            [n EXCEPT !.velx = clamp(IF dir = -1 THEN @ - Cent(HdrACCEL)
                                     ELSE IF dir = 1 THEN @ + Cent(HdrACCEL)
                                     ELSE TruncDiv(@ * HdrFRICTION, 100),
                                     -Cent(HdrMAX_SPEED), Cent(HdrMAX_SPEED))]
        Jump(n) == IF n.on_ground /\ jump
                   THEN [n EXCEPT !.vely = Cent(HdrJUMP), !.on_ground = FALSE]
                   ELSE n
        Gravity(n) == [n EXCEPT !.vely = clamp(@ + Cent(HdrGRAVITY), -999 * Unit,
                                               Cent(HdrMAX_FALL))]
        MoveX(n) == HdrCollide([n EXCEPT !.rect.x = @ + TruncDiv(n.velx, Unit)],
                               solids, n.velx, 0, 1, Len(solids))
        MoveY(n) == HdrCollide([n EXCEPT !.rect.y = @ + HdrIntVely(n.vely),
                                         !.on_ground = FALSE],
                               solids, 0, n.vely, 1, Len(solids))
    IN  MoveY(MoveX(Gravity(Jump(Horizontal(m)))))

HdrFPS == 60

\* build_level: what random, seeded with world * 777 + stage * 19, draws for
\* the levels played here: the spans of ground tiles (first tile, tiles),
\* which leave the gaps, the pipes (x, height) and the pyramid (base_x,
\* steps). World 3-3 is drawn whole; of the others, in which Mario does not
\* get far, the ground and the pipes as far as Mario gets.
HdrDrawn(world_no, stage) ==
    IF world_no = 3 /\ stage = 3
    THEN [ground |-> << <<0, 7>>, <<7, 6>>, <<13, 7>>, <<20, 8>>, <<28, 4>>, <<32, 8>>,
                        <<40, 5>>, <<47, 5>>, <<50, 7>>, <<57, 6>>, <<63, 6>>, <<69, 9>>,
                        <<78, 9>>, <<87, 8>>, <<95, 8>>, <<100, 8>>, <<108, 8>>,
                        <<116, 7>>, <<123, 5>>, <<128, 5>>, <<133, 8>>, <<141, 6>>,
                        <<147, 4>> >>,
          pipes |-> << <<128, 38>>, <<320, 41>>, <<512, 44>>, <<928, 54>>, <<1088, 47>>,
                       <<1280, 41>>, <<1728, 47>>, <<1904, 44>>, <<2048, 53>>,
                       <<2208, 43>> >>,
          pyramid |-> <<1349, 4>>]
    ELSE IF world_no = 5 /\ stage = 3
    THEN [ground |-> << <<0, 7>>, <<8, 8>> >>, pipes |-> << <<128, 35>> >>,
          pyramid |-> <<1530, 5>>]
    ELSE IF world_no = 3 /\ stage = 4
    THEN [ground |-> << <<0, 6>>, <<6, 5>>, <<11, 9>>, <<20, 5>>, <<25, 8>>, <<33, 4>>,
                        <<39, 5>>, <<44, 8>> >>,
          pipes |-> << <<128, 48>>, <<336, 39>>, <<544, 44>> >>,
          pyramid |-> <<1697, 4>>]
    ELSE [ground |-> << <<0, 7>> >>, pipes |-> <<>>, pyramid |-> <<1127, 4>>]

\* build_level: the two rows of ground under each tile of each span
RECURSIVE HdrGround(_)
HdrGround(spans) ==
    IF spans = <<>> THEN <<>>
    ELSE LET ground_top_y == HdrSCREEN_H - HdrTILE * 3
             Tile(k) == Rect((Head(spans)[1] + (k - 1) \div 2) * HdrTILE,
                             ground_top_y + ((k - 1) % 2) * HdrTILE, HdrTILE, HdrTILE)
         IN  [k \in 1..(2 * Head(spans)[2]) |-> Tile(k)] \o HdrGround(Tail(spans))

\* build_level: the pyramid, rows h of steps - h blocks
RECURSIVE HdrPyramid(_, _, _, _)
HdrPyramid(base_x, steps, h, i) ==
    IF h >= steps THEN <<>>
    ELSE IF i >= steps - h THEN HdrPyramid(base_x, steps, h + 1, 0)
    ELSE << Rect(base_x + i * HdrTILE, HdrSCREEN_H - HdrTILE * 3 - h * HdrTILE,
                 HdrTILE, HdrTILE) >>
         \o HdrPyramid(base_x, steps, h, i + 1)

\* FlagPole.__init__: the pole, standing on the ground, and the flag
HdrFlagPole(x, ground_top_y, h) ==
    [rect |-> Rect(x, ground_top_y - h, 6, h),
     flag |-> Rect(x + 4, ground_top_y - h + 10, 16, 8)]

\* pygame.Rect.union
union(a, b) ==
    Rect(Min(RLeft(a), RLeft(b)), Min(RTop(a), RTop(b)),
         Max(RRight(a), RRight(b)) - Min(RLeft(a), RLeft(b)),
         Max(RBottom(a), RBottom(b)) - Min(RTop(a), RTop(b)))

\* build_level, and the solids update_level hands to Mario.update (the
\* ground, the pyramid and the bricks under the flag, then the pipes); lava
\* under a castle, the theme of every stage 4
HdrBuildLevel(world_no, stage) ==
    LET drawn == HdrDrawn(world_no, stage)
        width_px == (120 + world_no * 8 + (stage - 1) * 4) * HdrTILE
        ground_top_y == HdrSCREEN_H - HdrTILE * 3
        flag_x == width_px - HdrTILE * 8
    IN  [wo |-> HdrGround(drawn.ground)
                \o HdrPyramid(drawn.pyramid[1], drawn.pyramid[2], 0, 0)
                \o << Rect(flag_x - HdrTILE * 3, ground_top_y, HdrTILE * 5, HdrTILE) >>
                \o [k \in 1..Len(drawn.pipes) |->
                      Rect(drawn.pipes[k][1], ground_top_y - drawn.pipes[k][2],
                           HdrTILE * 2, drawn.pipes[k][2])],
         level_width |-> width_px,
         flagpole |-> HdrFlagPole(flag_x, ground_top_y, HdrTILE * (4 + world_no \div 2)),
         hazards |-> IF (stage - 1) % 4 = 3
                     THEN << Rect(0, ground_top_y + HdrTILE * 2, width_px, HdrTILE) >>
                     ELSE <<>>]

\* Game.start_level: Mario(TILE*2, 0), then rect.topleft on the ground
HdrMario ==
    [rect |-> Rect(HdrTILE * 2, HdrSCREEN_H - HdrTILE * 3 - 32, 16, 32),
     velx |-> 0, vely |-> 0, on_ground |-> FALSE]

\* A user in world 3-4 who holds the right key and presses the jump key three
\* times, for the three pipes before the gap at tiles 37 and 38. Each number
\* is how many steps the jump key keeps its state, not held first.
HdrRouteToLava == <<24, 1, 69, 1, 68, 1, 34>>

\* Users in world 3-3, who get to the flagpole holding the right key and a
\* jump key: the steps the jump key is held from the start on (plan) and the
\* steps the right key is held, then up, then held ... (walk; the key keeps
\* its last state when the numbers run out).
\* One lets go of both keys at the flag and stands in it; one runs through it
\* and on into the pit at the end of the level; one stands in it for some
\* steps and walks on.
HdrRouteToFlag == [plan |-> <<0, 788>>, walk |-> <<788>>]
HdrRoutePastFlag == [plan |-> <<0, 900>>, walk |-> <<>>]
HdrRoutePauseAtFlag == [plan |-> <<0, 784>>, walk |-> <<784, 10>>]

\* The users: the level they chose on the map, the direction key they hold,
\* the jump key-downs they may make when they like, and the plans they
\* follow: one who stands in 1-1, one who walks right in 5-3, into the gap at
\* tile 7 before the first pipe, the one of HdrRouteToLava and the three of
\* world 3-3.
HdrSessions ==
    { [world_no |-> 1, stage |-> 1, dir |-> 0, jumps |-> MaxJumps, plan |-> <<>>,
       walk |-> <<>>],
      [world_no |-> 5, stage |-> 3, dir |-> 1, jumps |-> 0, plan |-> <<>>, walk |-> <<>>],
      [world_no |-> 3, stage |-> 4, dir |-> 1, jumps |-> 0, plan |-> HdrRouteToLava,
       walk |-> <<>>] }
    \cup
    { [world_no |-> 3, stage |-> 3, dir |-> 1, jumps |-> 0, plan |-> r.plan,
       walk |-> r.walk] : r \in {HdrRouteToFlag, HdrRoutePastFlag, HdrRoutePauseAtFlag} }

\* Mario's rectangle reaches into the column of the pole and the flag, at
\* their height
HdrAtFlag(m, flagpole) ==
    /\ RRight(m.rect) > RLeft(flagpole.rect)
    /\ RLeft(m.rect) < RRight(flagpole.flag)
    /\ RBottom(m.rect) > RTop(flagpole.rect)
    /\ RTop(m.rect) < RBottom(flagpole.rect)

\* Game.start_level(world, stage) as the user of session ses sees it
HdrStartLevel(ses) ==
    /\ mode' = [state |-> "LEVEL", death_timer |-> 0, victory_timer |-> 0]
    /\ player' = HdrMario
    /\ world' = HdrBuildLevel(ses.world_no, ses.stage)
    /\ input' = [dir |-> ses.dir, jumps |-> ses.jumps, jump |-> FALSE, plan |-> ses.plan,
                 walk |-> ses.walk, session |-> ses]
    /\ obs' = [handler |-> "start_level", touching |-> 0]
                 @@ Observe(FALSE, SinceCap, SinceCap, 0, FALSE, FALSE, NoEvents, HdrMario)

InitHdr ==
    /\ prog = "hdr4k"
    /\ \E ses \in HdrSessions :
          /\ mode = [state |-> "LEVEL", death_timer |-> 0, victory_timer |-> 0]
          /\ player = HdrMario
          /\ world = HdrBuildLevel(ses.world_no, ses.stage)
          /\ input = [dir |-> ses.dir, jumps |-> ses.jumps, jump |-> FALSE,
                      plan |-> ses.plan, walk |-> ses.walk, session |-> ses]
    /\ enemies = <<>>
    /\ coins = <<>>
    /\ items = <<>>
    /\ obs = [handler |-> "start_level", touching |-> 0]
                @@ Observe(FALSE, SinceCap, SinceCap, 0, FALSE, FALSE, NoEvents, player)

\* Game.check_death
HdrCheckDeath(m, hazards) ==
    IF RTop(m.rect) > HdrSCREEN_H + 50 THEN TRUE
    ELSE \E k \in 1..Len(hazards) : colliderect(m.rect, hazards[k])

\* a flag test that keeps the count of a contact that has ended
HdrFlag_NoReset(m, flagpole, g) ==
    IF colliderect(m.rect, union(flagpole.rect, flagpole.flag))
    THEN IF (g.victory_timer + 1) * 2 > HdrFPS
         THEN [g EXCEPT !.state = "VICTORY", !.victory_timer = 0]
         ELSE [g EXCEPT !.victory_timer = @ + 1]
    ELSE g

\* Game.update_level: the flag; g is the game's state and timers
HdrFlag(m, flagpole, g) ==
    IF colliderect(m.rect, union(flagpole.rect, flagpole.flag))
    THEN IF (g.victory_timer + 1) * 2 > HdrFPS
         THEN [g EXCEPT !.state = "VICTORY", !.victory_timer = 0]
         ELSE [g EXCEPT !.victory_timer = @ + 1]
    ELSE [g EXCEPT !.victory_timer = 0]

\* Game.update_level without an R or ESC key-down: Mario.update, then the
\* victory timer and the death timer.
HdrUpdateLevel(jump, plan) ==
    LET Death(m, g) ==
            IF HdrCheckDeath(m, world.hazards)
            THEN IF (g.death_timer + 1) * 10 > HdrFPS * 3
                 THEN [g EXCEPT !.state = "DEAD", !.death_timer = 0]
                 ELSE [g EXCEPT !.death_timer = @ + 1]
            ELSE [g EXCEPT !.death_timer = 0]
        Turn == input.walk # <<>> /\ Head(input.walk) = 1
        Commit(m) ==
            /\ player' = m
            /\ mode' = Death(m, HdrFlag(m, world.flagpole, mode))
            /\ input' = [input EXCEPT !.jumps = IF jump /\ input.plan = <<>> THEN @ - 1 ELSE @,
                                      !.jump = jump, !.plan = plan,
                                      !.dir = IF Turn THEN input.session.dir - @ ELSE @,
                                      !.walk = IF @ = <<>> THEN @
                                               ELSE IF Turn THEN Tail(@)
                                               ELSE <<Head(@) - 1>> \o Tail(@)]
            /\ obs' = [handler |-> "update_level",
                       touching |-> IF HdrAtFlag(m, world.flagpole)
                                    THEN Min(obs.touching + 1, HdrFPS)
                                    ELSE 0]
                         @@ Step(jump, m.on_ground,
                                 [NoEvents EXCEPT !.jumped = player.on_ground /\ jump], player)
            /\ UNCHANGED <<prog, world, enemies, coins, items>>
    IN  Commit(HdrUpdate(player, input.dir, jump, world.wo))

\* a level step with the jump keys up
HdrFrame ==
    /\ prog = "hdr4k"
    /\ mode.state = "LEVEL"
    /\ IF input.plan = <<>> THEN HdrUpdateLevel(FALSE, <<>>)
       ELSE IF input.jump
       THEN Head(input.plan) = 0 /\ HdrUpdateLevel(FALSE, PlanTurn(input.plan))
       ELSE Head(input.plan) > 0 /\ HdrUpdateLevel(FALSE, PlanAfter(input.plan))

\* a level step with a jump key held
HdrFrameJump ==
    /\ prog = "hdr4k"
    /\ mode.state = "LEVEL"
    /\ IF input.plan = <<>> THEN input.jumps > 0 /\ HdrUpdateLevel(TRUE, <<>>)
       ELSE IF input.jump
       THEN Head(input.plan) > 0 /\ HdrUpdateLevel(TRUE, PlanAfter(input.plan))
       ELSE Head(input.plan) = 0 /\ HdrUpdateLevel(TRUE, PlanTurn(input.plan))

\* Game.update_level with an R key-down: the level starts again
HdrRestart ==
    /\ prog = "hdr4k"
    /\ mode.state = "LEVEL"
    /\ HdrStartLevel(input.session)
    /\ UNCHANGED <<prog, enemies, coins, items>>

\* Game.update_victory with an ENTER key-down: the next level starts, for the
\* user who plays it
HdrNextLevel ==
    /\ prog = "hdr4k"
    /\ mode.state = "VICTORY"
    /\ LET ns == (input.session.stage % 4) + 1
           nw == IF ns = 1 THEN (input.session.world_no % 8) + 1
                 ELSE input.session.world_no
       IN  \E ses \in HdrSessions :
              /\ ses.world_no = nw
              /\ ses.stage = ns
              /\ HdrStartLevel(ses)
    /\ UNCHANGED <<prog, enemies, coins, items>>

\* Game.update_dead with an ENTER key-down: the level starts again. (ESC, in
\* the level, at the victory or here, leads to the map, which is not
\* followed.)
HdrRetry ==
    /\ prog = "hdr4k"
    /\ mode.state = "DEAD"
    /\ HdrStartLevel(input.session)
    /\ UNCHANGED <<prog, enemies, coins, items>>

NextHdr == HdrFrame \/ HdrFrameJump \/ HdrRestart \/ HdrRetry \/ HdrNextLevel

SpecHdr == InitHdr /\ [][NextHdr]_vars

-----------------------------------------------------------------------------
(* ultrasmb4k.py: configuration, Level                                     *)

SmbWIDTH == 600
SmbHEIGHT == 400
SmbTILE == 20
SmbGRAVITY == 2200
SmbMOVE_ACCEL == 2400
SmbAIR_ACCEL == 1800
SmbGROUND_FRICTION == 2200
SmbMAX_WALK_SPEED == 180
SmbMAX_RUN_SPEED == 220
SmbJUMP_SPEED == 520
SmbJUMP_HOLD_FORCE == 2300
SmbSTOMP_BOUNCE == 360

\* FPS_TARGET = 60.0988, in ten-thousandths
SmbFPS_TARGET == 600988
\* JUMP_HOLD_TIME = 0.09 s, in microseconds
SmbJUMP_HOLD_TIME == 90000

\* Velocities are floats in px/s; here they are whole numbers of 1/SmbUnit px/s
SmbUnit == 100000

\* floor(n * 10^places / d), one decimal place at a time
RECURSIVE LongDiv(_, _, _, _)
LongDiv(q, r, d, places) ==
    IF places = 0 THEN q
    ELSE LongDiv(10 * q + ((10 * r) \div d), (10 * r) % d, d, places - 1)

\* c * FIXED_DT for a whole c, cut to 1/SmbUnit
TimesDt(c) == LongDiv((c * 10000) \div SmbFPS_TARGET, (c * 10000) % SmbFPS_TARGET,
                      SmbFPS_TARGET, 5)

\* FIXED_DT in microseconds
SmbFIXED_DT == LongDiv(0, 10000, SmbFPS_TARGET, 6)

\* v * dt is v / SmbStepDen px when v is in 1/SmbUnit px/s
SmbStepDen == (SmbUnit \div 10000) * SmbFPS_TARGET

\* int(round(v * dt)): Python rounds to the nearest whole, a tie to the even one
IntRound(v) ==
    LET Pick(q, twice) == IF twice < SmbStepDen THEN q
                          ELSE IF twice > SmbStepDen THEN q + 1
                          ELSE IF q % 2 = 0 THEN q ELSE q + 1
        Floor(q) == Pick(q, 2 * (v - q * SmbStepDen))
    IN  Floor(IF v >= 0 THEN v \div SmbStepDen
              ELSE -((-v + SmbStepDen - 1) \div SmbStepDen))

sign(x) == IF x < 0 THEN -1 ELSE IF x > 0 THEN 1 ELSE 0

\* a // b of Python for b > 0: the floor
FloorDiv(a, b) == IF a >= 0 THEN a \div b ELSE -((-a + b - 1) \div b)

SmbSOLID == {"X", "B", "?", "H", "L"}

\* Python list indexing: list[i] counts a negative i from the end and raises
\* IndexError outside -len .. len-1
PyInRange(list, i) == -Len(list) <= i /\ i < Len(list)
PyItem(list, i) == list[IF i < 0 THEN i + Len(list) + 1 ELSE i + 1]

\* Level.__init__; error is "" until a list access raises
SmbLevel(width_tiles, height_tiles) ==
    [wt |-> width_tiles, ht |-> height_tiles,
     grid |-> [ty \in 1..height_tiles |-> [tx \in 1..width_tiles |-> " "]],
     spawn_px |-> <<SmbTILE * 2, SmbTILE * (height_tiles - 5)>>,
     flag_x |-> width_tiles - 5,
     coins |-> <<>>, enemies |-> <<>>, error |-> ""]

\* in_bounds without the lower bounds: tx < self.wt and ty < self.ht
SmbInBounds_NoLower(lvl, tx, ty) == tx < lvl.wt /\ ty < lvl.ht

SmbInBounds(lvl, tx, ty) == 0 <= tx /\ tx < lvl.wt /\ 0 <= ty /\ ty < lvl.ht

\* Level.get
SmbGet(lvl, tx, ty) ==
    IF ~SmbInBounds(lvl, tx, ty) THEN " "
    ELSE IF ~PyInRange(lvl.grid, ty) THEN "IndexError"
    ELSE IF ~PyInRange(PyItem(lvl.grid, ty), tx) THEN "IndexError"
    ELSE PyItem(PyItem(lvl.grid, ty), tx)

\* Level.set
SmbSet(lvl, tx, ty, ch) ==
    IF ~SmbInBounds(lvl, tx, ty) THEN lvl
    ELSE IF ~PyInRange(lvl.grid, ty) THEN [lvl EXCEPT !.error = "IndexError"]
    ELSE IF ~PyInRange(PyItem(lvl.grid, ty), tx) THEN [lvl EXCEPT !.error = "IndexError"]
    ELSE [lvl EXCEPT !.grid[IF ty < 0 THEN ty + lvl.ht + 1 ELSE ty + 1]
                           [IF tx < 0 THEN tx + lvl.wt + 1 ELSE tx + 1] = ch]

\* Level.is_solid
SmbIsSolid(lvl, tx, ty) == SmbGet(lvl, tx, ty) \in SmbSOLID

\* Level.tile_rect
SmbTileRect(tx, ty) == Rect(tx * SmbTILE, ty * SmbTILE, SmbTILE, SmbTILE)

\* tiles_in_rect with the loops stopping one short: range(top, bottom),
\* range(left, right)
SmbTilesInRect_OneShort(lvl, rect) ==
    LET Cells(left, right, top, bottom) ==
            IF right < left \/ bottom < top THEN <<>>
            ELSE [k \in 1..((right - left + 1) * (bottom - top + 1)) |->
                    <<left + ((k - 1) % (right - left + 1)),
                      top + ((k - 1) \div (right - left + 1))>>]
    IN  Cells(Max(FloorDiv(RLeft(rect), SmbTILE), 0),
              Min(FloorDiv(RRight(rect) - 1, SmbTILE), lvl.wt - 1) - 1,
              Max(FloorDiv(RTop(rect), SmbTILE), 0),
              Min(FloorDiv(RBottom(rect) - 1, SmbTILE), lvl.ht - 1) - 1)

\* Level.tiles_in_rect: the candidate tiles, row by row, as the generator
\* yields them; its bounds are taken from the rect when the loop starts
SmbTilesInRect(lvl, rect) ==
    LET Cells(left, right, top, bottom) ==
            IF right < left \/ bottom < top THEN <<>>
            ELSE [k \in 1..((right - left + 1) * (bottom - top + 1)) |->
                    <<left + ((k - 1) % (right - left + 1)),
                      top + ((k - 1) \div (right - left + 1))>>]
    IN  Cells(Max(FloorDiv(RLeft(rect), SmbTILE), 0),
              Min(FloorDiv(RRight(rect) - 1, SmbTILE), lvl.wt - 1),
              Max(FloorDiv(RTop(rect), SmbTILE), 0),
              Min(FloorDiv(RBottom(rect) - 1, SmbTILE), lvl.ht - 1))

\* Rect.inflate(-6, -6) of a tile
SmbCoinRect(tx, ty) == Rect(tx * SmbTILE + 3, ty * SmbTILE + 3, SmbTILE - 6, SmbTILE - 6)

\* Level.add_coin
SmbAddCoin(lvl, tx, ty) == [lvl EXCEPT !.coins = Append(@, SmbCoinRect(tx, ty))]

\* Goomba(x, y)
SmbGoomba(x, y) ==
    [x |-> x, y |-> y, vx |-> -50 * SmbUnit, alive |-> TRUE, width |-> 16, height |-> 16,
     on_ground |-> FALSE]

\* Level.add_goomba
SmbAddGoomba(lvl, tx, ty) ==
    [lvl EXCEPT !.enemies = Append(@, SmbGoomba(tx * SmbTILE + (SmbTILE \div 2) - 8,
                                                ty * SmbTILE + SmbTILE - 16))]

\* range(a, b, step) for step > 0
Range(a, b, step) ==
    [k \in 1..(IF b > a THEN (b - a + step - 1) \div step ELSE 0) |-> a + (k - 1) * step]

\* The sequences seqs[lo] .. seqs[hi] one after the other
RECURSIVE Flat(_, _, _)
Flat(seqs, lo, hi) ==
    IF lo > hi THEN <<>>
    ELSE IF lo = hi THEN seqs[lo]
    ELSE Flat(seqs, lo, (lo + hi) \div 2) \o Flat(seqs, ((lo + hi) \div 2) + 1, hi)

Cat(seqs) == Flat(seqs, 1, Len(seqs))

\* The calls a generator makes on the level under construction, in order:
\* each tile holds what the last in-bounds set on it wrote, and the coins and
\* the Goombas are appended in call order
SmbBuild(lvl, calls) ==
    LET Sets(ty) == SelectSeq(calls, LAMBDA c : c.call = "set" /\ c.ty = ty
                                                /\ SmbInBounds(lvl, c.tx, c.ty))
        Last(row, hits, old) ==
            IF hits = {} THEN old ELSE row[CHOOSE i \in hits : \A j \in hits : j <= i].ch
        Row(row, old) ==
            [tx \in 1..lvl.wt |-> Last(row, {i \in 1..Len(row) : row[i].tx = tx - 1}, old[tx])]
        Coins(cs) == [k \in 1..Len(cs) |-> SmbCoinRect(cs[k].tx, cs[k].ty)]
        Goombas(gs) == [k \in 1..Len(gs) |-> SmbAddGoomba(lvl, gs[k].tx, gs[k].ty).enemies[
                                                 Len(lvl.enemies) + 1]]
    IN  [lvl EXCEPT !.grid = [ty \in 1..lvl.ht |-> Row(Sets(ty - 1), @[ty])],
                    !.coins = @ \o Coins(SelectSeq(calls, LAMBDA c : c.call = "add_coin")),
                    !.enemies = @ \o Goombas(SelectSeq(calls, LAMBDA c : c.call = "add_goomba"))]

SmbClusters == <<18, 36, 64, 88, 124, 152, 184>>
SmbPipePositions == <<28, 54, 90, 140, 172, 206>>
SmbGoombaTiles == <<22, 35, 50, 67, 84, 120, 136, 150, 166, 190>>

\* Level.gen_level1
SmbGenLevel1(width_tiles, height_tiles) ==
    LET Call(call, tx, ty, ch) == [call |-> call, tx |-> tx, ty |-> ty, ch |-> ch]
        Ground(ground_y) ==
            Cat([k \in 1..width_tiles |-> << Call("set", k - 1, ground_y, "X"),
                                              Call("set", k - 1, ground_y + 1, "X") >>])
        Hill(ground_y, base) ==
            Cat([k \in 1..5 |->
                    << Call("set", base + k - 1, ground_y - k, "B") >>
                    \o (IF (k - 1) % 2 = 0
                        THEN << Call("add_coin", base + k - 1, ground_y - k - 2, " ") >>
                        ELSE <<>>)])
        Hills(ground_y, bases) == Cat([b \in 1..Len(bases) |-> Hill(ground_y, bases[b])])
        Cluster(row, cx) ==
            [k \in 1..5 |-> Call("set", cx + k - 1, row, "B")]
            \o << Call("set", cx + 2, row - 2, "?"), Call("add_coin", cx + 2, row - 3, " ") >>
        Clusters(ground_y) ==
            Cat([c \in 1..Len(SmbClusters) |-> Cluster(ground_y - 5, SmbClusters[c])])
        Pipe(ground_y, i, px) ==
            Cat([k \in 1..(2 + (i % 3)) |-> << Call("set", px, ground_y - (k - 1), "L"),
                                                Call("set", px + 1, ground_y - (k - 1), "L") >>])
        Pipes(ground_y) ==
            Cat([c \in 1..Len(SmbPipePositions) |-> Pipe(ground_y, c - 1, SmbPipePositions[c])])
        Goombas(ground_y) ==
            [c \in 1..Len(SmbGoombaTiles) |-> Call("add_goomba", SmbGoombaTiles[c], ground_y - 1, " ")]
        Flag(ground_y, flag_x) ==
            [k \in 1..9 |-> Call("set", flag_x, ground_y - 8 + k - 1, "|")]
            \o [k \in 1..10 |-> Call("set", flag_x - 2 + k - 1, ground_y + 1, "X")]
        Gen(ground_y) ==
            SmbBuild([SmbBuild(SmbLevel(width_tiles, height_tiles),
                               Ground(ground_y)
                               \o Hills(ground_y, Range(10, width_tiles - 20, 26))
                               \o Clusters(ground_y) \o Pipes(ground_y) \o Goombas(ground_y))
                        EXCEPT !.spawn_px = <<SmbTILE * 2, SmbTILE * (ground_y - 3)>>,
                               !.flag_x = width_tiles - 6],
                     Flag(ground_y, width_tiles - 6))
    IN  Gen(height_tiles - 2)

\* What random.choice, random.randint and random.random return to the first
\* three calls of gen_level2 after main's random.seed(1337) (CPython's
\* Mersenne Twister): for each platform the rise drawn from [5, 6, 7], the
\* length drawn from 3..7 and, tile by tile, whether random() < 0.6; then
\* the height of each pipe drawn from [2, 3, 4]
SmbDrawn ==
    << [platforms |-> << <<7, 7, <<0, 1, 0, 0, 1, 0, 1>> >>, <<6, 6, <<0, 1, 0, 0, 1, 0>> >>,
                         <<6, 3, <<1, 0, 0>> >>, <<6, 5, <<0, 0, 1, 1, 0>> >>,
                         <<6, 7, <<1, 1, 1, 1, 1, 0, 1>> >>, <<5, 3, <<1, 0, 0>> >>,
                         <<7, 3, <<0, 1, 1>> >>, <<6, 7, <<1, 0, 0, 1, 0, 1, 0>> >>,
                         <<7, 5, <<0, 1, 0, 1, 1>> >>, <<7, 3, <<0, 0, 1>> >>,
                         <<5, 7, <<1, 0, 0, 1, 1, 1, 1>> >> >>,
        pipes |-> <<2, 4, 2, 2, 2, 3>>],
       [platforms |-> << <<5, 4, <<1, 1, 1, 1>> >>, <<5, 6, <<1, 0, 0, 1, 1, 0>> >>,
                         <<5, 6, <<1, 1, 1, 0, 0, 0>> >>, <<5, 4, <<1, 0, 1, 1>> >>,
                         <<7, 5, <<1, 1, 0, 0, 1>> >>, <<5, 6, <<0, 0, 1, 1, 1, 1>> >>,
                         <<7, 5, <<0, 0, 1, 1, 1>> >>, <<6, 6, <<1, 0, 0, 1, 0, 1>> >>,
                         <<7, 3, <<1, 0, 1>> >>, <<7, 7, <<0, 0, 1, 0, 1, 1, 1>> >>,
                         <<7, 4, <<1, 1, 0, 1>> >> >>,
        pipes |-> <<3, 3, 4, 2, 4, 4>>],
       [platforms |-> << <<5, 7, <<0, 0, 1, 1, 1, 1, 1>> >>, <<5, 7, <<1, 1, 0, 1, 1, 1, 1>> >>,
                         <<5, 6, <<1, 0, 0, 0, 1, 1>> >>, <<7, 3, <<0, 1, 1>> >>,
                         <<6, 4, <<1, 1, 1, 1>> >>, <<6, 7, <<1, 0, 0, 1, 0, 1, 0>> >>,
                         <<6, 6, <<0, 1, 1, 0, 1, 1>> >>, <<6, 3, <<1, 0, 0>> >>,
                         <<5, 3, <<1, 0, 0>> >>, <<6, 5, <<1, 0, 1, 0, 0>> >>,
                         <<6, 5, <<1, 1, 0, 1, 0>> >> >>,
        pipes |-> <<2, 2, 3, 3, 4, 3>>] >>

SmbBarriers == <<32, 64, 96, 128, 160, 192>>
SmbLadders == <<40, 70, 110, 150, 180>>
SmbPatrolTiles == <<18, 26, 42, 58, 75, 90, 106, 122, 138, 154, 170, 186, 202>>

\* Level.gen_level2; drawn is what the random module returns to its calls
SmbGenLevel2(width_tiles, height_tiles, drawn) ==
    LET Call(call, tx, ty, ch) == [call |-> call, tx |-> tx, ty |-> ty, ch |-> ch]
        Ground(ground_y) ==
            Cat([k \in 1..width_tiles |-> << Call("set", k - 1, ground_y, "X"),
                                              Call("set", k - 1, ground_y + 1, "X") >>])
        Gap(ground_y, base) ==
            Cat([k \in 1..2 |-> << Call("set", base + k - 1, ground_y, " "),
                                    Call("set", base + k - 1, ground_y + 1, " ") >>])
        Platform(py, base, d) ==
            Cat([k \in 1..d[2] |->
                    << Call("set", base + 3 + k - 1, py, "H") >>
                    \o (IF d[3][k] = 1
                        THEN << Call("add_coin", base + 3 + k - 1, py - 2, " ") >>
                        ELSE <<>>)])
        Floating(ground_y, bases) ==
            Cat([b \in 1..Len(bases) |->
                    Gap(ground_y, bases[b])
                    \o Platform(ground_y - drawn.platforms[b][1], bases[b],
                                drawn.platforms[b])])
        Pipe(ground_y, height, px) ==
            Cat([k \in 1..height |-> << Call("set", px, ground_y - (k - 1), "L"),
                                         Call("set", px + 1, ground_y - (k - 1), "L") >>])
        Pipes(ground_y) ==
            Cat([c \in 1..Len(SmbBarriers) |-> Pipe(ground_y, drawn.pipes[c], SmbBarriers[c])])
        Ladder(ground_y, cx) ==
            Cat([k \in 1..3 |-> << Call("set", cx + k - 1, ground_y - (5 + k - 1), "?"),
                                    Call("add_coin", cx + k - 1, ground_y - (6 + k - 1), " ") >>])
        Ladders(ground_y) ==
            Cat([c \in 1..Len(SmbLadders) |-> Ladder(ground_y, SmbLadders[c])])
        Goombas(ground_y) ==
            [c \in 1..Len(SmbPatrolTiles) |-> Call("add_goomba", SmbPatrolTiles[c], ground_y - 1, " ")]
        Flag(ground_y, flag_x) ==
            [k \in 1..10 |-> Call("set", flag_x, ground_y - 9 + k - 1, "|")]
            \o [k \in 1..10 |-> Call("set", flag_x - 2 + k - 1, ground_y + 1, "X")]
        Gen(ground_y) ==
            SmbBuild([SmbBuild(SmbLevel(width_tiles, height_tiles),
                               Ground(ground_y)
                               \o Floating(ground_y, Range(14, width_tiles - 14, 22))
                               \o Pipes(ground_y) \o Ladders(ground_y) \o Goombas(ground_y))
                        EXCEPT !.spawn_px = <<SmbTILE * 3, SmbTILE * (ground_y - 3)>>,
                               !.flag_x = width_tiles - 6],
                     Flag(ground_y, width_tiles - 6))
    IN  Gen(height_tiles - 2)

-----------------------------------------------------------------------------
(* ultrasmb4k.py: move_and_collide                                         *)

\* A move in progress: r, on_ground and lvl are the code's; hit_x, hit_up and
\* struck record which branches ran (struck: the '?' tiles hit from below)
SmbMove(r, lvl) ==
    [r |-> r, on_ground |-> FALSE, lvl |-> lvl, hit_x |-> FALSE, hit_up |-> FALSE,
     struck |-> {}]

\* the horizontal loop over lvl.tiles_in_rect(r)
RECURSIVE SmbResolveX(_, _, _, _)
SmbResolveX(m, dx, cells, i) ==
    IF i > Len(cells) THEN m
    ELSE IF SmbIsSolid(m.lvl, cells[i][1], cells[i][2])
            /\ colliderect(m.r, SmbTileRect(cells[i][1], cells[i][2]))
    THEN SmbResolveX(
             IF dx > 0
             THEN [m EXCEPT !.r = SetRight(@, RLeft(SmbTileRect(cells[i][1], cells[i][2]))),
                            !.hit_x = TRUE]
             ELSE IF dx < 0
             THEN [m EXCEPT !.r = SetLeft(@, RRight(SmbTileRect(cells[i][1], cells[i][2]))),
                            !.hit_x = TRUE]
             ELSE m,
             dx, cells, i + 1)
    ELSE SmbResolveX(m, dx, cells, i + 1)

\* the vertical loop over lvl.tiles_in_rect(r)
RECURSIVE SmbResolveY(_, _, _, _)
SmbResolveY(m, dy, cells, i) ==
    IF i > Len(cells) THEN m
    ELSE IF SmbGet(m.lvl, cells[i][1], cells[i][2]) \in SmbSOLID
            /\ colliderect(m.r, SmbTileRect(cells[i][1], cells[i][2]))
    THEN SmbResolveY(
             IF dy > 0
             THEN [m EXCEPT !.r = SetBottom(@, RTop(SmbTileRect(cells[i][1], cells[i][2]))),
                            !.on_ground = TRUE]
             ELSE IF dy < 0
             THEN [m EXCEPT !.r = SetTop(@, RBottom(SmbTileRect(cells[i][1], cells[i][2]))),
                            !.hit_up = TRUE,
                            !.struck = IF SmbGet(m.lvl, cells[i][1], cells[i][2]) = "?"
                                       THEN @ \cup {cells[i]} ELSE @]
             ELSE m,
             dy, cells, i + 1)
    ELSE SmbResolveY(m, dy, cells, i + 1)

\* if collided_above: the '?' check at (r.centerx // TILE, r.top // TILE)
SmbQuestion(m) ==
    LET Pop(tx, ty_above) ==
            IF SmbGet(m.lvl, tx, ty_above) = "?"
            THEN [m EXCEPT !.lvl = SmbAddCoin(SmbSet(@, tx, ty_above, "B"), tx, ty_above - 1)]
            ELSE m
    IN  IF m.hit_up
        THEN Pop(FloorDiv(RCenterX(m.r), SmbTILE), FloorDiv(RTop(m.r), SmbTILE))
        ELSE m

\* move_and_collide(rect, dx, dy, lvl); dx and dy are in 1/SmbStepDen px
SmbMoveAndCollide(rect, dx, dy, lvl) ==
    LET StartX(r) == SmbResolveX(SmbMove(r, lvl), dx, SmbTilesInRect(lvl, r), 1)
        Horizontal == IF dx # 0 THEN StartX([rect EXCEPT !.x = @ + IntRound(dx)])
                      ELSE SmbMove(rect, lvl)
        StartY(m) == SmbQuestion(SmbResolveY(m, dy, SmbTilesInRect(m.lvl, m.r), 1))
        Vertical(m) == IF dy # 0 THEN StartY([m EXCEPT !.r.y = @ + IntRound(dy)]) ELSE m
    IN  Vertical(Horizontal)

-----------------------------------------------------------------------------
(* ultrasmb4k.py: Player, Goomba, Camera                                   *)

\* Player(rect)
SmbPlayer(rect) ==
    [rect |-> rect, vx |-> 0, vy |-> 0, on_ground |-> FALSE, jump_time |-> 0,
     alive |-> TRUE, coins |-> 0]

\* Player.collect_coins
SmbCollectCoins(p, lvl) ==
    [p |-> [p EXCEPT !.coins = @ + Cardinality({i \in 1..Len(lvl.coins) :
                                                  colliderect(p.rect, lvl.coins[i])})],
     lvl |-> [lvl EXCEPT !.coins = SelectSeq(@, LAMBDA r : ~colliderect(p.rect, r))]]

\* the hold force for as long as the key is held in the air
SmbHoldDue_NoBudget(q, keys) == keys.jump /\ ~q.on_ground

\* elif want_jump and self.jump_time > 0.0
SmbHoldDue(q, keys) == keys.jump /\ q.jump_time > 0

\* stomp_bounce that leaves the velocity alone
SmbStompBounce_KeepsFalling(p) == [p EXCEPT !.on_ground = FALSE]

\* Player.stomp_bounce
SmbStompBounce(p) == [p EXCEPT !.vy = -SmbSTOMP_BOUNCE * SmbUnit, !.on_ground = FALSE]

\* Player.update(lvl, keys, FIXED_DT); keys holds left, right, shift and jump.
\* The result carries the player and the level, and from move_and_collide
\* hit_x, hit_down (the on_ground it returned), hit_up, struck and the coins
\* it added.
SmbPlayerUpdate(p, lvl, keys) ==
    LET Accel(on_ground) ==
            (IF keys.left THEN -(IF on_ground THEN SmbMOVE_ACCEL ELSE SmbAIR_ACCEL) ELSE 0)
            + (IF keys.right THEN (IF on_ground THEN SmbMOVE_ACCEL ELSE SmbAIR_ACCEL) ELSE 0)
        Friction(q) ==
            IF q.on_ground /\ Accel(q.on_ground) = 0
            THEN (IF Abs(q.vx) <= TimesDt(SmbGROUND_FRICTION)
                  THEN [q EXCEPT !.vx = 0]
                  ELSE [q EXCEPT !.vx = @ - TimesDt(SmbGROUND_FRICTION) * sign(@)])
            ELSE q
        Integrate(q) ==
            [q EXCEPT !.vx = clamp(@ + sign(Accel(q.on_ground)) * TimesDt(Abs(Accel(q.on_ground))),
                                   -(IF keys.shift THEN SmbMAX_RUN_SPEED ELSE SmbMAX_WALK_SPEED)
                                     * SmbUnit,
                                   (IF keys.shift THEN SmbMAX_RUN_SPEED ELSE SmbMAX_WALK_SPEED)
                                     * SmbUnit)]
        Jumping(q) ==
            IF keys.jump /\ q.on_ground
            THEN [q EXCEPT !.vy = -SmbJUMP_SPEED * SmbUnit, !.on_ground = FALSE,
                           !.jump_time = SmbJUMP_HOLD_TIME]
            ELSE IF SmbHoldDue(q, keys)
            THEN [q EXCEPT !.vy = @ - TimesDt(SmbJUMP_HOLD_FORCE),
                           !.jump_time = @ - SmbFIXED_DT]
            ELSE [q EXCEPT !.jump_time = 0]
        Gravity(q) == [q EXCEPT !.vy = Min(@ + TimesDt(SmbGRAVITY), SmbGRAVITY * SmbUnit)]
        Fell(q, l) == IF RTop(q.rect) > l.ht * SmbTILE + 200 THEN [q EXCEPT !.alive = FALSE]
                      ELSE q
        Collect(c, m) ==
            [p |-> Fell(c.p, c.lvl), lvl |-> c.lvl, hit_x |-> m.hit_x,
             hit_down |-> m.on_ground, hit_up |-> m.hit_up,
             struck |-> m.struck,
             added |-> SubSeq(m.lvl.coins, Len(lvl.coins) + 1, Len(m.lvl.coins))]
        Moved(q, m) ==
            Collect(SmbCollectCoins([q EXCEPT !.rect = m.r, !.on_ground = m.on_ground], m.lvl), m)
        Move(q) == Moved(q, SmbMoveAndCollide(q.rect, q.vx, q.vy, lvl))
    IN  IF ~p.alive
        THEN [p |-> p, lvl |-> lvl, hit_x |-> FALSE, hit_down |-> FALSE, hit_up |-> FALSE,
              struck |-> {}, added |-> <<>>]
        ELSE Move(Gravity(Jumping(Integrate(Friction(p)))))

\* Goomba.rect
SmbGoombaRect(e) == Rect(e.x, e.y, e.width, e.height)

\* Goomba.update(lvl, FIXED_DT); the result carries the Goomba and the level
SmbGoombaUpdate(e, lvl) ==
    LET Walk(g) == [g EXCEPT !.vx = clamp(@, -90 * SmbUnit, 90 * SmbUnit)]
        Flip(g, m) ==
            IF RLeft(m.r) = RLeft(SmbGoombaRect(g)) /\ g.vx < 0 THEN Abs(g.vx)
            ELSE IF RLeft(m.r) = RLeft(SmbGoombaRect(g)) /\ g.vx > 0 THEN -Abs(g.vx)
            ELSE g.vx
        Moved(g, m) ==
            [e |-> [g EXCEPT !.vx = Flip(g, m), !.x = RLeft(m.r), !.y = RTop(m.r),
                             !.on_ground = m.on_ground,
                             !.alive = ~(RTop(m.r) > m.lvl.ht * SmbTILE + 200)],
             lvl |-> m.lvl, hit_x |-> m.hit_x]
        Move(g) == Moved(g, SmbMoveAndCollide(SmbGoombaRect(g), g.vx, TimesDt(SmbGRAVITY), lvl))
    IN  IF ~e.alive THEN [e |-> e, lvl |-> lvl, hit_x |-> FALSE] ELSE Move(Walk(e))

\* Camera.x is a float; here it is a whole number of 1/SmbCamUnit px
SmbCamUnit == 100

\* Camera.update(target_rect, lvl, FIXED_DT): min(1.0, 10.0 * dt) is 10 * dt
SmbCameraUpdate(x, target_rect, lvl) ==
    LET Gain(d) == LongDiv((d * 1000) \div SmbFPS_TARGET, (d * 1000) % SmbFPS_TARGET,
                           SmbFPS_TARGET, 2)
        Follow(diff) == x + sign(diff) * Gain(Abs(diff))
    IN  clamp(Follow((RCenterX(target_rect) - (SmbWIDTH * 35) \div 100) * SmbCamUnit - x),
              0, (lvl.wt * SmbTILE - SmbWIDTH) * SmbCamUnit)

-----------------------------------------------------------------------------
(* ultrasmb4k.py: main                                                     *)

\* for e in lvl.enemies: e.update(lvl, FIXED_DT)
RECURSIVE SmbEnemiesUpdate(_, _, _)
SmbEnemiesUpdate(lvl, i, hits) ==
    IF i > Len(lvl.enemies) THEN [lvl |-> lvl, hits |-> hits]
    ELSE LET Put(u) == SmbEnemiesUpdate([u.lvl EXCEPT !.enemies[i] = u.e], i + 1,
                                        IF u.hit_x THEN hits \cup {i} ELSE hits)
         IN  Put(SmbGoombaUpdate(lvl.enemies[i], lvl))

\* Player vs enemies (stomp or hurt)
\* met: what each Goomba the player overlapped found and left
RECURSIVE SmbPlayerVsEnemies(_, _, _, _)
SmbPlayerVsEnemies(p, es, i, met) ==
    IF i > Len(es) THEN [p |-> p, enemies |-> es, met |-> met]
    ELSE IF es[i].alive /\ colliderect(p.rect, SmbGoombaRect(es[i]))
    THEN LET Met(q, e) ==
                 Append(met, [vy |-> p.vy, bottom |-> RBottom(p.rect),
                              top |-> RTop(SmbGoombaRect(es[i])), alive |-> p.alive,
                              after |-> [vy |-> q.vy, alive |-> q.alive,
                                         on_ground |-> q.on_ground],
                              enemy_alive |-> e.alive])
             Go(q, e) == SmbPlayerVsEnemies(q, [es EXCEPT ![i] = e], i + 1, Met(q, e))
         IN  IF p.vy > 50 * SmbUnit /\ RBottom(p.rect) - RTop(SmbGoombaRect(es[i])) <= 10
             THEN Go(SmbStompBounce(p), [es[i] EXCEPT !.alive = FALSE])
             ELSE Go([p EXCEPT !.alive = FALSE], es[i])
    ELSE SmbPlayerVsEnemies(p, es, i + 1, met)

\* levels[level_index] and the player main starts with
SmbStartLevel == SmbGenLevel1(240, 20)
SmbStartPlayer(lvl) == SmbPlayer(Rect(lvl.spawn_px[1], lvl.spawn_px[2], 14, 18))

\* One pass of the fixed-step loop under the key snapshot keys. The flag, at
\* tile 234, is out of reach of the steps taken here, so the level does not
\* change.
SmbFixedStepOf(p0, lvl0, cam0, keys) ==
    LET Respawn(t) ==
            IF ~t.p.alive
            THEN [t EXCEPT !.p = SmbStartPlayer(t.lvl), !.cam = 0, !.respawned = TRUE]
            ELSE t
        Camera(t) == [t EXCEPT !.cam = SmbCameraUpdate(@, t.p.rect, t.lvl)]
        Versus(t, v) ==
            [t EXCEPT !.p = v.p,
                      !.lvl.enemies = SelectSeq(v.enemies, LAMBDA e : e.alive),
                      !.stomped = {i \in 1..Len(v.enemies) :
                                     t.lvl.enemies[i].alive /\ ~v.enemies[i].alive},
                      !.hurt = ~v.p.alive /\ t.p.alive,
                      !.met = v.met]
        Interact(t) == Versus(t, SmbPlayerVsEnemies(t.p, t.lvl.enemies, 1, <<>>))
        Walked(t, u) == [t EXCEPT !.lvl = u.lvl, !.walls = u.hits]
        Enemies(t) == Walked(t, SmbEnemiesUpdate(t.lvl, 1, {}))
        Updated(u) ==
            [p |-> u.p, lvl |-> u.lvl, cam |-> cam0, hit_x |-> u.hit_x,
             hit_down |-> u.hit_down, hit_up |-> u.hit_up, struck |-> u.struck, added |-> u.added,
             walls |-> {}, stomped |-> {}, hurt |-> FALSE, respawned |-> FALSE,
             met |-> <<>>]
    IN  Respawn(Camera(Interact(Enemies(Updated(SmbPlayerUpdate(p0, lvl0, keys))))))

SmbFixedStep(keys) ==
    LET Commit(t) ==
            /\ player' = t.p
            /\ world' = t.lvl
            /\ mode' = [mode EXCEPT !.cam = t.cam]
            /\ obs' = [stepped |-> TRUE, keys |-> keys, before |-> player,
                       hit_x |-> t.hit_x, hit_down |-> t.hit_down, hit_up |-> t.hit_up,
                       struck |-> t.struck,
                       added |-> t.added, walls |-> t.walls, stomped |-> t.stomped,
                       hurt |-> t.hurt, respawned |-> t.respawned, met |-> t.met,
                       reset |-> FALSE]
            /\ UNCHANGED <<prog, enemies, coins, items>>
    IN  Commit(SmbFixedStepOf(player, world, mode.cam, keys))

\* Steps of the fixed-step loop a user without a plan takes
SmbMaxSteps == 56
\* Steps a user with a plan takes after the plan's last
SmbMaxStepsAfter == 5
\* Jump key-downs the user makes at times of their choosing
SmbMaxPresses == 1

\* A user who walks right from the spawn and jumps three times: onto the
\* bricks at tiles 18..22, and from there up under the '?' at tile (20, 11).
\* Each number is how many steps the jump key keeps its state, not held first.
SmbRouteToQuestion == <<49, 5, 21, 4, 41, 1>>
\* A user who walks right, jumps twice over the steps at tiles 10..14 and
\* comes down beside the Goomba that set out from tile 22: it walks into the
\* player landed on the ground.
SmbRouteToHurt == <<40, 1, 21, 2, 36>>
\* The same way with other timing: the player comes down on that Goomba.
SmbRouteToStomp == <<48, 2, 18, 1, 31>>

RECURSIVE Sum(_, _)
Sum(seq, i) == IF i > Len(seq) THEN 0 ELSE seq[i] + Sum(seq, i + 1)

\* The users: the direction and shift keys they hold throughout, the jump
\* key-downs they may make, the steps they play and the plan they follow.
\* Shift changes nothing for a user who holds no direction key.
SmbSessions ==
    { u \in [dir : {-1, 0, 1}, shift : BOOLEAN, jump : {FALSE}, presses : {SmbMaxPresses},
             steps : {SmbMaxSteps}, plan : {<<>>}, run : {0}] : u.shift => u.dir = 1 }
    \cup { [dir |-> 1, shift |-> FALSE, jump |-> FALSE, presses |-> 0,
             steps |-> Sum(route, 1) + SmbMaxStepsAfter, plan |-> route, run |-> 0] :
               route \in {SmbRouteToQuestion, SmbRouteToHurt, SmbRouteToStomp} }

SmbNoObs ==
    [stepped |-> FALSE, keys |-> [left |-> FALSE, right |-> FALSE, shift |-> FALSE,
                                  jump |-> FALSE],
     before |-> SmbStartPlayer(SmbStartLevel), hit_x |-> FALSE, hit_down |-> FALSE,
     hit_up |-> FALSE, struck |-> {}, added |-> <<>>, walls |-> {}, stomped |-> {},
     hurt |-> FALSE, respawned |-> FALSE, met |-> <<>>, reset |-> FALSE]

InitSmb ==
    /\ prog = "smb4k"
    /\ mode = [level_index |-> 0, cam |-> 0]
    /\ world = SmbStartLevel
    /\ player = SmbStartPlayer(world)
    /\ enemies = <<>>
    /\ coins = <<>>
    /\ items = <<>>
    /\ input \in SmbSessions
    /\ obs = SmbNoObs

\* Steps in a row counted after a liftoff
SmbRunCap == 8

\* What the user has seen of the jump under way: run is 1 after a step that
\* found the player alive on the ground with the jump key held (the liftoff),
\* one more after each step in a row with the key still held, and 0 from the
\* first step without the key until the next liftoff
SmbRun(run, jump) ==
    IF jump /\ player.alive /\ player.on_ground THEN 1
    ELSE IF jump /\ run > 0 THEN Min(run + 1, SmbRunCap)
    ELSE 0

\* keys = pygame.key.get_pressed(), then the step
SmbStep(jump, plan) ==
    /\ prog = "smb4k"
    /\ input.steps > 0
    /\ input' = [input EXCEPT !.jump = jump, !.steps = @ - 1, !.plan = plan,
                              !.presses = IF jump /\ ~input.jump /\ input.plan = <<>>
                                          THEN @ - 1 ELSE @,
                              !.run = SmbRun(@, jump)]
    /\ SmbFixedStep([left |-> input.dir = -1, right |-> input.dir = 1,
                     shift |-> input.shift, jump |-> jump])

\* a step with the jump key as it was
SmbStepKeep ==
    /\ prog = "smb4k"
    /\ IF input.plan = <<>> THEN TRUE ELSE Head(input.plan) > 0
    /\ SmbStep(input.jump, PlanAfter(input.plan))

\* a step after a jump key-down
SmbStepPress ==
    /\ prog = "smb4k"
    /\ ~input.jump
    /\ IF input.plan = <<>> THEN input.presses > 0 ELSE Head(input.plan) = 0
    /\ SmbStep(TRUE, PlanTurn(input.plan))

\* a step after a jump key-up
SmbStepRelease ==
    /\ prog = "smb4k"
    /\ input.jump
    /\ IF input.plan = <<>> THEN TRUE ELSE Head(input.plan) = 0
    /\ SmbStep(FALSE, PlanTurn(input.plan))

NextSmb == SmbStepKeep \/ SmbStepPress \/ SmbStepRelease

SpecSmb == InitSmb /\ [][NextSmb]_vars

\* levels, as main builds the list before its loop
SmbLevels == <<SmbStartLevel, SmbGenLevel2(260, 20, SmbDrawn[1])>>

\* K_r: reset level. mode.drawn counts the calls of gen_level2 made so far.
SmbReset ==
    /\ prog = "smb4k"
    /\ input.resets > 0
    /\ mode.level_index = 1 => mode.drawn < Len(SmbDrawn)
    /\ world' = IF mode.level_index = 0 THEN SmbGenLevel1(240, 20)
                ELSE SmbGenLevel2(260, 20, SmbDrawn[mode.drawn + 1])
    /\ player' = SmbStartPlayer(world')
    /\ mode' = [mode EXCEPT !.cam = 0,
                            !.drawn = IF mode.level_index = 0 THEN @ ELSE @ + 1]
    /\ input' = [input EXCEPT !.resets = @ - 1]
    /\ obs' = [SmbNoObs EXCEPT !.reset = TRUE]
    /\ UNCHANGED <<prog, enemies, coins, items>>

\* R key-downs a user makes
SmbMaxResets == 1
\* Steps of the fixed-step loop a user who may press R takes
SmbResetSteps == 40

\* Users who may press R between two frames: one who walks right on the
\* level they are in, the first or, the first finished, the second; and on
\* the first the user who picks up coins on the way to a Goomba.
SmbResetSessions ==
    [level_index : {0, 1}, dir : {1}, shift : {FALSE}, jump : {FALSE}, presses : {0},
     steps : {SmbResetSteps}, plan : {<<>>}, resets : {SmbMaxResets}, run : {0}]
    \cup { [level_index |-> 0, dir |-> 1, shift |-> FALSE, jump |-> FALSE, presses |-> 0,
             steps |-> Sum(SmbRouteToHurt, 1) + SmbMaxStepsAfter, plan |-> SmbRouteToHurt,
             resets |-> SmbMaxResets, run |-> 0] }

\* The frame in which levels[level_index] is entered: at the start of main
\* for the first level, from the flag of the first for the second
InitSmbReset ==
    /\ prog = "smb4k"
    /\ input \in SmbResetSessions
    /\ mode = [level_index |-> input.level_index, cam |-> 0, drawn |-> 1]
    /\ world = SmbLevels[input.level_index + 1]
    /\ player = SmbStartPlayer(world)
    /\ enemies = <<>>
    /\ coins = <<>>
    /\ items = <<>>
    /\ obs = SmbNoObs

SpecSmbReset == InitSmbReset /\ [][NextSmb \/ SmbReset]_vars

-----------------------------------------------------------------------------
(* ultrasmb4k.py: the tile helpers of Level, called on their own           *)

\* Tile coordinates around the four corners of the grid, inside and outside
SmbApiReach == 1
SmbApiTx(lvl) == (-SmbApiReach .. 0) \cup ((lvl.wt - 1) .. (lvl.wt - 1 + SmbApiReach))
SmbApiTy(lvl) == (-SmbApiReach .. 0) \cup ((lvl.ht - 1) .. (lvl.ht - 1 + SmbApiReach))

InitSmbLevel ==
    /\ prog = "smb4k_level"
    /\ mode = [level_index |-> 0, cam |-> 0]
    /\ world = SmbStartLevel
    /\ player = SmbStartPlayer(world)
    /\ enemies = <<>>
    /\ coins = <<>>
    /\ items = <<>>
    /\ input = [calls |-> 0]
    /\ obs = [call |-> "none", tx |-> 0, ty |-> 0, ch |-> " ", result |-> " ",
              before |-> world.grid]

SmbApiCall(call, tx, ty, ch, result, lvl) ==
    /\ prog = "smb4k_level"
    /\ world' = lvl
    /\ obs' = [call |-> call, tx |-> tx, ty |-> ty, ch |-> ch, result |-> result,
               before |-> world.grid]
    /\ UNCHANGED <<prog, mode, player, enemies, coins, items, input>>

\* lvl.get(tx, ty)
SmbLevelGet ==
    \E tx \in SmbApiTx(world), ty \in SmbApiTy(world) :
        SmbApiCall("get", tx, ty, " ", SmbGet(world, tx, ty), world)

\* lvl.is_solid(tx, ty)
SmbLevelIsSolid ==
    \E tx \in SmbApiTx(world), ty \in SmbApiTy(world) :
        SmbApiCall("is_solid", tx, ty, " ",
                   IF SmbGet(world, tx, ty) = "IndexError" THEN "IndexError"
                   ELSE IF SmbIsSolid(world, tx, ty) THEN "True" ELSE "False", world)

\* lvl.set(tx, ty, ch)
SmbLevelSet ==
    \E tx \in SmbApiTx(world), ty \in SmbApiTy(world), ch \in {" ", "?"} :
        SmbApiCall("set", tx, ty, ch, "None", SmbSet(world, tx, ty, ch))

NextSmbLevel == SmbLevelGet \/ SmbLevelIsSolid \/ SmbLevelSet

SpecSmbLevel == InitSmbLevel /\ [][NextSmbLevel]_vars

-----------------------------------------------------------------------------
(* ultrasmb4k.py: move_and_collide, called on its own                      *)

\* No solid tile of the grid overlaps r
SmbFree(lvl, r) ==
    \A tx \in (FloorDiv(RLeft(r), SmbTILE) - 1) .. (FloorDiv(RRight(r), SmbTILE) + 1),
       ty \in (FloorDiv(RTop(r), SmbTILE) - 1) .. (FloorDiv(RBottom(r), SmbTILE) + 1) :
        (0 <= tx /\ tx < lvl.wt /\ 0 <= ty /\ ty < lvl.ht
         /\ lvl.grid[ty + 1][tx + 1] \in SmbSOLID)
        => ~colliderect(r, SmbTileRect(tx, ty))

\* The rectangles tried: the sizes of the player and of a Goomba, at the
\* pixel positions of a window around the first hill's lowest brick, tile
\* (10, 17), the brick above and beside it, tile (11, 16), and the ground;
\* the window reaches from the ground up to above tile (11, 16)
SmbWindowX == 26
SmbWindowY == 42
SmbWindow ==
    { r \in [x : (10 * SmbTILE - SmbWindowX) .. (10 * SmbTILE + SmbWindowX),
             y : (18 * SmbTILE - 18 - SmbWindowY) .. (18 * SmbTILE - 16),
             w : {14, 16}, h : {18, 16}] :
        (r.w = 14 <=> r.h = 18) /\ SmbFree(SmbStartLevel, r) }

\* The velocities tried: the speed caps, the Goomba's, and the least and the
\* greatest vertical speed of the player, with values between; in px per step
\* 4, 3, 1, 0 to either side and -9 .. 37
SmbSpeedsX ==
    { -SmbMAX_RUN_SPEED * SmbUnit, -SmbMAX_WALK_SPEED * SmbUnit, -50 * SmbUnit,
      -TimesDt(SmbAIR_ACCEL), 0, TimesDt(SmbAIR_ACCEL), 90 * SmbUnit,
      SmbMAX_WALK_SPEED * SmbUnit, SmbMAX_RUN_SPEED * SmbUnit }
SmbSpeedsY ==
    { -SmbJUMP_SPEED * SmbUnit - 6 * (TimesDt(SmbJUMP_HOLD_FORCE) - TimesDt(SmbGRAVITY)),
      -SmbSTOMP_BOUNCE * SmbUnit, -TimesDt(SmbGRAVITY), 0, TimesDt(SmbGRAVITY),
      SmbJUMP_SPEED * SmbUnit, (SmbGRAVITY * SmbUnit) \div 2, SmbGRAVITY * SmbUnit }

InitSmbMove ==
    /\ prog = "smb4k_move"
    /\ mode = [level_index |-> 0, cam |-> 0]
    /\ world = SmbStartLevel
    /\ player \in { [rect |-> r] : r \in SmbWindow }
    /\ enemies = <<>>
    /\ coins = <<>>
    /\ items = <<>>
    /\ input = [moves |-> 1]
    /\ obs = [moved |-> FALSE, rect |-> player.rect, dx |-> 0, dy |-> 0,
              on_ground |-> FALSE, hit_x |-> FALSE, hit_up |-> FALSE]

\* move_and_collide(rect, dx, dy, lvl)
SmbMoveCall ==
    /\ prog = "smb4k_move"
    /\ input.moves > 0
    /\ \E dx \in SmbSpeedsX, dy \in SmbSpeedsY :
          LET Commit(m) ==
                  /\ player' = [rect |-> m.r]
                  /\ world' = m.lvl
                  /\ obs' = [moved |-> TRUE, rect |-> player.rect, dx |-> dx, dy |-> dy,
                             on_ground |-> m.on_ground, hit_x |-> m.hit_x,
                             hit_up |-> m.hit_up]
          IN  Commit(SmbMoveAndCollide(player.rect, dx, dy, world))
    /\ input' = [input EXCEPT !.moves = @ - 1]
    /\ UNCHANGED <<prog, mode, enemies, coins, items>>

NextSmbMove == SmbMoveCall

SpecSmbMove == InitSmbMove /\ [][NextSmbMove]_vars

-----------------------------------------------------------------------------
(* geminiultramario1.x.py: handle_item_collection, and                     *)
(* ultra_mario_forever_1_0a.py: the coin and item loops of Player.update,  *)
(* called on their own                                                     *)

\* Coins in the list when the call is made
MaxCoinsListed == 3
\* Items in the list when the call is made
MaxItemsListed == 2
\* The player's coin counter when the call is made
CoinsInHand == {0, 98, 99}

SeqsUpTo(S, n) == UNION {[1..k -> S] : k \in 0..n}

\* The player of either tier stands at the start position; each coin and
\* item lies on the player or 200 px to the right.
InitGemItems ==
    /\ prog = "gemini_items"
    /\ mode = "LEVEL"
    /\ \E state \in Tiers, c \in CoinsInHand :
          player = [GemPlayer(state, 1, CarryGround) EXCEPT !.coins = c]
    /\ world = [wo |-> <<>>, level_width |-> 0]
    /\ enemies = <<>>
    /\ coins \in SeqsUpTo({GemCoin(x, GemSCREEN_HEIGHT - 150) : x \in {100, 300}},
                          MaxCoinsListed)
    /\ items \in SeqsUpTo({GemItem(x, GemSCREEN_HEIGHT - 150, t) :
                             x \in {100, 300}, t \in {"mushroom", "flower"}}, MaxItemsListed)
    /\ input = [dir |-> 0, jumps |-> 0]
    /\ obs = [called |-> FALSE, before |-> player, coins |-> coins, items |-> items]

InitFvrItems ==
    /\ prog = "forever_items"
    /\ mode = "PLAYING"
    /\ \E state \in Tiers, c \in CoinsInHand :
          player = [FvrPlayer(state, 1, CarryGround) EXCEPT !.coins = c]
    /\ world = [wo |-> <<>>, level_width |-> 0]
    /\ enemies = <<>>
    /\ coins \in SeqsUpTo({FvrCoin(x, FvrSCREEN_HEIGHT - 100) : x \in {50, 250}},
                          MaxCoinsListed)
    /\ items \in SeqsUpTo({FvrItem(x, FvrSCREEN_HEIGHT - 100, t) :
                             x \in {50, 250}, t \in {"mushroom", "flower"}}, MaxItemsListed)
    /\ input = [dir |-> 0, jumps |-> 0]
    /\ obs = [called |-> FALSE, before |-> player, coins |-> coins, items |-> items]

\* the lists and the player after the call; obs keeps them as they were
ItemsCalled(s) ==
    /\ player' = s.p
    /\ coins' = s.co
    /\ items' = s.it
    /\ obs' = [called |-> TRUE, before |-> player, coins |-> coins, items |-> items]
    /\ UNCHANGED <<prog, mode, world, enemies, input>>

GemItemsCall ==
    /\ prog = "gemini_items"
    /\ ~obs.called
    /\ ItemsCalled(GemHandleItemCollection([p |-> player, co |-> coins, it |-> items]))

FvrItemsCall ==
    /\ prog = "forever_items"
    /\ ~obs.called
    /\ ItemsCalled(FvrCollect([p |-> player, co |-> coins, it |-> items]))

SpecItems == (InitGemItems \/ InitFvrItems) /\ [][GemItemsCall \/ FvrItemsCall]_vars

-----------------------------------------------------------------------------
(* Specifications over several programs                                    *)

\* geminiultramario1.x.py and ultra_mario_forever_1_0a.py
SpecGemFvr == (InitGem \/ InitFvr) /\ [][NextGem \/ NextFvr]_vars

\* demo1--ultramario.py, ultramario4k1.x.py and geminiultramario1.x.py
SpecRest == (InitDemo \/ InitHdr \/ InitGem) /\ [][NextDemo \/ NextHdr \/ NextGem]_vars

\* ultrasmb4k.py: the game, and move_and_collide called on its own
SpecSmbMoveGame == (InitSmb \/ InitSmbMove) /\ [][NextSmb \/ NextSmbMove]_vars

\* the five programs
SpecGemSmb == (InitGem \/ InitSmb) /\ [][NextGem \/ NextSmb]_vars

SpecAll ==
    /\ InitGem \/ InitFvr \/ InitDemo \/ InitHdr \/ InitSmb
    /\ [][NextGem \/ NextFvr \/ NextDemo \/ NextHdr \/ NextSmb]_vars

-----------------------------------------------------------------------------
(* Power tiers                                                             *)

\* C1 (geminiultramario1.x.py, ultra_mario_forever_1_0a.py): a hurt event
\* on a player in the top tier FIRE leaves the player in the middle tier SUPER
\* with the invincibility countdown started.
C1_FireHitLeavesSuper ==
    \A i \in 1..Len(obs.ev.hurts) :
        obs.ev.hurts[i].from = FIRE
            => /\ obs.ev.hurts[i].to = SUPER
               /\ obs.ev.hurts[i].timer > 0

-----------------------------------------------------------------------------
(* Question blocks                                                         *)

\* C2 (ultrasmb4k.py): when the player, moving upward, collides with the
\* underside of a '?' tile, that tile stops being '?' and exactly one coin is
\* added, in the cell above it, in the same step.
C2_QuestionHitPopsCoin ==
    (prog = "smb4k" /\ obs.stepped)
        => \A t \in obs.struck :
              /\ SmbGet(world, t[1], t[2]) # "?"
              /\ obs.added = <<SmbCoinRect(t[1], t[2] - 1)>>

\* the question blocks of geminiultramario1.x.py, as loaded
GemQuestionBlocks == {i \in 1..Len(world.wo) : world.wo[i].kind0 = "QUESTION"}

\* C3 (geminiultramario1.x.py): a question block spawns at most one pickup
\* whatever the number of upward hits on it, exactly one once it is hit if it
\* carries an item; after the first hit it is USED; and a later hit changes
\* neither its type, its item nor its hit timer (the block goes on as
\* Block.update alone takes it) and spawns nothing.
C3_QuestionBlockOneShot ==
    /\ [](prog = "gemini" =>
            \A i \in GemQuestionBlocks :
                /\ world.wo[i].spawned <= 1
                /\ world.wo[i].struck >= 1 =>
                      /\ world.wo[i].type = "USED"
                      /\ world.wo[i].item = "none"
                      /\ world.wo[i].spawned = IF world.wo[i].item0 = "none" THEN 0 ELSE 1)
    /\ [][prog = "gemini" =>
            \A i \in GemQuestionBlocks :
                (world.wo[i].struck >= 1 /\ world'.wo[i].struck > world.wo[i].struck)
                    => /\ world'.wo[i] = [GemBlockUpdate(world.wo[i])
                                            EXCEPT !.struck = world'.wo[i].struck]
                       /\ Len(coins') <= Len(coins)
                       /\ Len(items') <= Len(items)]_vars

\* a question block that carried an item has been hit twice and has spawned
\* one pickup
C3_Witness ==
    /\ prog = "gemini"
    /\ \E i \in GemQuestionBlocks :
          /\ world.wo[i].item0 # "none"
          /\ world.wo[i].struck >= 2
          /\ world.wo[i].spawned = 1

-----------------------------------------------------------------------------
(* Tile collisions                                                         *)

\* Every position on the way from the rectangle from to the rectangle to,
\* first along x and then along y, is clear of solid tiles
SmbPathFree(lvl, from, to) ==
    /\ \A x \in Min(from.x, to.x) .. Max(from.x, to.x) : SmbFree(lvl, [from EXCEPT !.x = x])
    /\ \A y \in Min(from.y, to.y) .. Max(from.y, to.y) : SmbFree(lvl, [to EXCEPT !.y = y])

\* After a fixed step the player and every Goomba are clear of solid tiles
SmbEntitiesFree ==
    (prog = "smb4k" /\ obs.stepped)
        => /\ SmbFree(world, player.rect)
           /\ \A i \in 1..Len(world.enemies) : SmbFree(world, SmbGoombaRect(world.enemies[i]))

\* The displacement is one the entity with this rectangle can have: any for
\* the player's 14 x 18, the walking speeds up to the clamp of 90 and one
\* step of gravity for a Goomba's 16 x 16
SmbEntityMove(rect, dx, dy) ==
    \/ rect.w = 14 /\ rect.h = 18
    \/ rect.w = 16 /\ rect.h = 16 /\ Abs(dx) <= 90 * SmbUnit /\ dy = TimesDt(SmbGRAVITY)

\* C4 as stated (ultrasmb4k.py): for any rectangle that overlaps no solid
\* tile and any displacement under the speed caps, the rectangle
\* move_and_collide returns overlaps no solid tile and has not passed through
\* one; and neither the player nor a Goomba ends a step overlapping one.
C4_AnyRectangle ==
    /\ (prog = "smb4k_move" /\ obs.moved)
          => /\ SmbFree(world, player.rect)
             /\ SmbPathFree(world, obs.rect, player.rect)
    /\ SmbEntitiesFree

\* C4 amended (ultrasmb4k.py): for the player's and a Goomba's rectangle,
\* clear of solid tiles, moved by a displacement that entity can have, the
\* rectangle move_and_collide returns overlaps no solid tile and has not
\* passed through one; and neither the player nor a Goomba ends a step
\* overlapping one.
C4_EntityRectangle ==
    /\ (prog = "smb4k_move" /\ obs.moved /\ SmbEntityMove(obs.rect, obs.dx, obs.dy))
          => /\ SmbFree(world, player.rect)
             /\ SmbPathFree(world, obs.rect, player.rect)
    /\ SmbEntitiesFree

\* the player's rectangle, falling at the cap, is stopped by a tile short of
\* the displacement
C4_Witness ==
    /\ prog = "smb4k_move"
    /\ obs.moved
    /\ obs.rect.w = 14
    /\ obs.dy = SmbGRAVITY * SmbUnit
    /\ obs.on_ground
    /\ player.rect.y < obs.rect.y + IntRound(obs.dy)

\* C5 (ultrasmb4k.py): for a tile coordinate outside the grid, is_solid is
\* false, get returns the empty tile and set leaves the grid unchanged; none
\* of the three fails.
C5_OutOfBounds ==
    (/\ prog = "smb4k_level"
     /\ obs.call # "none"
     /\ (obs.tx < 0 \/ obs.tx >= world.wt \/ obs.ty < 0 \/ obs.ty >= world.ht))
        => /\ obs.call = "is_solid" => obs.result = "False"
           /\ obs.call = "get" => obs.result = " "
           /\ obs.call = "set" => world.grid = obs.before
           /\ obs.result # "IndexError"
           /\ world.error = ""

\* is_solid at (-1, ht - 1), where Python's index -1 would read the solid
\* last tile of the row; and a set outside the grid with a tile that differs
\* from the one an index taken modulo the size would overwrite
C5_Witness ==
    /\ prog = "smb4k_level"
    /\ \/ /\ obs.call = "is_solid"
          /\ obs.tx = -1
          /\ obs.ty = world.ht - 1
          /\ world.grid[world.ht][world.wt] \in SmbSOLID
       \/ /\ obs.call = "set"
          /\ obs.tx = -1
          /\ obs.ty = world.ht - 1
          /\ world.grid[world.ht][world.wt] # obs.ch

-----------------------------------------------------------------------------
(* Rest, coyote time and the jump buffer                                   *)

\* C6 (demo1--ultramario.py, ultramario4k1.x.py, geminiultramario1.x.py): a
\* player at rest on solid ground, with no input, has velocity (0, 0) and
\* on_ground true after one step, and so after every further such step.
C6_RestStays ==
    /\ (/\ prog \in {"demo1", "hdr4k"}
        /\ input.dir = 0 /\ ~obs.keydown
        /\ obs.before.on_ground /\ obs.before.velx = 0 /\ obs.before.vely = 0)
          => player.on_ground /\ player.velx = 0 /\ player.vely = 0
    /\ (/\ prog = "gemini"
        /\ input.dir = 0 /\ ~obs.keydown
        /\ obs.before.on_ground /\ obs.before.vel_x = 0 /\ obs.before.vel_y = 0
        /\ obs.before.jump_buffer = 0
        /\ obs.ev = NoEvents)
          => player.on_ground /\ player.vel_x = 0 /\ player.vel_y = 0

\* C7 (ultrasmb4k.py): after a step in which a solid tile blocked the
\* player's motion on an axis (a wall horizontally; the floor or a ceiling
\* vertically), the player's velocity on that axis is zero. (A step that
\* ends with a stomp or a respawn sets the velocity afterwards and is left
\* out.)
C7_BlockedAxisStops ==
    (/\ prog = "smb4k"
     /\ obs.stepped
     /\ obs.stomped = {}
     /\ ~obs.hurt
     /\ obs.before.alive
     /\ RTop(player.rect) <= world.ht * SmbTILE + 200)
        => /\ obs.hit_x => player.vx = 0
           /\ (obs.hit_down \/ obs.hit_up) => player.vy = 0

\* C8 (geminiultramario1.x.py): a jump key-down processed in one of the
\* first 6 updates after the last update that ended with ground contact
\* makes the player jump, vel_y being set to JUMP_VELOCITY; in the 7th update
\* or a later one no jump is made while the player stays airborne.
C8_CoyoteWindow ==
    prog = "gemini" =>
        /\ (obs.keydown /\ obs.k <= GemCoyoteFrames)
              => /\ obs.ev.jumped
                 /\ (obs.ev.hurts = <<>> /\ ~obs.ev.fell)
                       => player.vel_y = Cent(GemJUMP_VELOCITY)
        /\ (obs.k > GemCoyoteFrames /\ ~player.on_ground) => ~obs.ev.jumped

\* a key-down in the 6th update after the last ground contact, the player
\* airborne, makes the jump
C8_Witness ==
    /\ prog = "gemini"
    /\ obs.keydown
    /\ obs.k = GemCoyoteFrames
    /\ obs.ev.jumped
    /\ ~obs.before.on_ground
    /\ ~player.on_ground
    /\ player.vel_y = Cent(GemJUMP_VELOCITY)

\* C9 (ultra_mario_forever_1_0a.py): a jump requested while the player is
\* airborne and the coyote countdown is above 0 succeeds in that step: vel_y
\* is set to the jump velocity.
C9_CoyoteJump ==
    (/\ prog = "forever"
     /\ obs.keydown
     /\ ~player.on_ground
     /\ player.coyote_time > 0
     /\ obs.ev.hurts = <<>>
     /\ ~obs.ev.fell)
        => /\ obs.ev.jumped
           /\ player.vel_y = Cent(FvrJUMP_VELOCITY)

\* C10 (geminiultramario1.x.py, ultra_mario_forever_1_0a.py): a jump
\* key-down arms a buffer of 6 updates: the first of the 6 updates after the
\* key-down to end with ground contact makes the jump, and no jump is made
\* in an update later than the 6th without a new key-down.
C10_JumpBuffer ==
    prog \in {"gemini", "forever"} =>
        /\ (obs.age \in 1..GemJumpBufferFrames /\ obs.first) => obs.ev.jumped
        /\ obs.ev.jumped => obs.age \in 1..GemJumpBufferFrames

\* the 6th update after the key-down is the first to end with ground
\* contact, and the jump is made
C10_Witness ==
    /\ prog \in {"gemini", "forever"}
    /\ obs.age = GemJumpBufferFrames
    /\ obs.first
    /\ obs.ev.jumped

\* C11 (geminiultramario1.x.py, ultra_mario_forever_1_0a.py): a jump
\* key-down causes at most one jump: the update that makes the jump leaves
\* jump_buffer at 0, and from jump_buffer = 0 an update without a new
\* key-down makes no jump and leaves jump_buffer at 0.
C11_OneJumpPerKeyDown ==
    /\ []((prog \in {"gemini", "forever"} /\ obs.ev.jumped) => player.jump_buffer = 0)
    /\ [][(prog \in {"gemini", "forever"} /\ player.jump_buffer = 0 /\ ~obs'.keydown)
             => (~obs'.ev.jumped /\ player'.jump_buffer = 0)]_vars

\* the update after the one that made the jump: no new key-down, the key-down
\* 2 updates old, the coyote countdown still running, and no second jump
C11_Witness ==
    /\ prog = "gemini"
    /\ obs.age = 2
    /\ ~obs.keydown
    /\ obs.before.vel_y = Cent(GemJUMP_VELOCITY)
    /\ obs.before.jump_buffer = 0
    /\ player.coyote_time > 0
    /\ ~obs.ev.jumped

-----------------------------------------------------------------------------
(* Jumps in the air                                                        *)

\* C12 (geminiultramario1.x.py): no jump is made in the air after an earlier
\* jump: between two successive jumps there is an update that ends with
\* ground contact (the updates of the two jumps counted).
C12_NoMidAirJump ==
    prog = "gemini" => ~obs.midair

-----------------------------------------------------------------------------
(* The ground-contact flag                                                 *)

\* The rectangle r, moved down with velocity vy, overlaps one of rects: the
\* vertical pass then takes its landing branch at the first one it overlaps
Lands(r, vy, rects) == vy > 0 /\ \E i \in 1..Len(rects) : colliderect(r, rects[i])

\* ... in geminiultramario1.x.py, for the player as the update found it
GemLanded(before, wo) ==
    LET Down(p, vy) == Lands([p.rect EXCEPT !.y = AddTrunc(@, vy)], vy,
                             [i \in 1..Len(wo) |-> wo[i].rect])
        AfterX(p) == Down(p, Min(p.vel_y + Cent(GemGRAVITY), Cent(GemMAX_FALL_SPEED)))
    IN  AfterX(GemPlayerX([p |-> before, wo |-> wo]).p)

\* ... in ultra_mario_forever_1_0a.py
FvrLanded(before, platforms) ==
    LET Down(p, vy) == Lands([p.rect EXCEPT !.y = AddTrunc(@, vy)], vy, platforms)
        AfterX(p) == Down(p, Min(p.vel_y + Cent(FvrGRAVITY), Cent(FvrMAX_FALL_SPEED)))
    IN  AfterX(FvrPlayerX([p |-> before, wo |-> platforms]).p)

\* ... in demo1--ultramario.py, for Mario before and after the update
DemoLanded(before, space, after, blocks) ==
    LET Down(vy) == Lands([after.rect EXCEPT !.y = before.rect.y + DemoIntVely(vy)], vy, blocks)
    IN  Down(Min((IF before.on_ground /\ space THEN Cent(DemoJUMP) ELSE before.vely)
                   + Cent(DemoGRAVITY), Cent(DemoMAX_FALL)))

\* ... in ultramario4k1.x.py
HdrLanded(before, jump, after, solids) ==
    LET Down(vy) == Lands([after.rect EXCEPT !.y = before.rect.y + HdrIntVely(vy)], vy, solids)
    IN  Down(clamp((IF before.on_ground /\ jump THEN Cent(HdrJUMP) ELSE before.vely)
                     + Cent(HdrGRAVITY), -999 * Unit, Cent(HdrMAX_FALL)))

\* ... in ultrasmb4k.py, for a step that ends with the player it began with
\* and without a stomp
SmbLanded(before, after, lvl) ==
    after.vy > 0 /\ ~SmbFree(lvl, [after.rect EXCEPT !.y = before.rect.y + IntRound(after.vy)])

\* The flag after an update of the four programs with rectangle lists is
\* true exactly if the update's vertical pass landed
FlagIsLanding ==
    /\ prog = "gemini" => (player'.on_ground <=> GemLanded(obs'.before, world.wo))
    /\ prog = "forever" => (player'.on_ground <=> FvrLanded(obs'.before, world.wo))
    /\ prog = "demo1"
          => (player'.on_ground <=> DemoLanded(player, obs'.keydown, player', world.wo))
    /\ (prog = "hdr4k" /\ obs'.handler = "update_level")
          => (player'.on_ground <=> HdrLanded(player, obs'.keydown, player', world.wo))

\* C13 as stated (every variant): the player's on_ground is true at the end of
\* a step if and only if the vertical collision pass of that step resolved a
\* downward collision with a solid.
C13_FlagIffLanding ==
    [][/\ FlagIsLanding
       /\ prog = "smb4k" => (player'.on_ground <=> obs'.hit_down)]_vars

\* C13 amended: the same, except that in ultrasmb4k.py a step that ends with a
\* stomp bounce or with the player put back at the spawn point leaves
\* on_ground false whatever the collision pass resolved.
C13_FlagIffLandingOrReset ==
    [][/\ FlagIsLanding
       /\ prog = "smb4k" =>
             IF obs'.respawned \/ obs'.stomped # {}
             THEN ~player'.on_ground
             ELSE /\ player'.on_ground <=> obs'.hit_down
                  /\ player'.on_ground <=> SmbLanded(player, player', world)]_vars

\* an update of geminiultramario1.x.py found on_ground true, made no jump
\* and lost the flag: after a move of 0 px the player overlaps no block
C13_Witness ==
    /\ prog = "gemini"
    /\ obs.before.on_ground
    /\ obs.before.vel_y = 0
    /\ ~obs.ev.jumped
    /\ ~player.on_ground

-----------------------------------------------------------------------------
(* Hurt events, pickups and coins                                          *)

\* C14 (geminiultramario1.x.py, ultra_mario_forever_1_0a.py): a hurt event on
\* a player in the lowest tier SMALL is a death: it takes exactly 1 life,
\* leaves the tier SMALL and no invincibility, and the update ends with the
\* player at the start position with zero velocity.
C14_SmallHitIsDeath ==
    prog \in {"gemini", "forever"} =>
        \A i \in 1..Len(obs.ev.hurts) :
            obs.ev.hurts[i].from = SMALL
                => /\ obs.ev.hurts[i].lives = -1
                   /\ obs.ev.hurts[i].to = SMALL
                   /\ obs.ev.hurts[i].timer = 0
                   /\ player.state = SMALL
                   /\ player.vel_x = 0 /\ player.vel_y = 0
                   /\ prog = "gemini"
                         => RLeft(player.rect) = 100 /\ RTop(player.rect) = GemSCREEN_HEIGHT - 150
                   /\ prog = "forever"
                         => RLeft(player.rect) = 50 /\ RTop(player.rect) = FvrSCREEN_HEIGHT - 100

\* an enemy has walked into a SMALL player standing on the ground, away from
\* the start position
C14_Witness ==
    /\ prog \in {"gemini", "forever"}
    /\ Len(obs.ev.hurts) = 1
    /\ obs.ev.hurts[1].from = SMALL
    /\ obs.before.rect.y # player.rect.y
    /\ obs.before.lives = player.lives + 1

\* The pickup loops have been called on their own
ItemsDone == prog \in {"gemini_items", "forever_items"} /\ obs.called

\* C15 (geminiultramario1.x.py, ultra_mario_forever_1_0a.py): collecting
\* pickups never lowers the player's tier, whatever the tier and the item
\* types.
C15_PickupNeverLowersTier ==
    ItemsDone => player.state >= obs.before.state

\* a FIRE player of ultra_mario_forever_1_0a.py has touched a mushroom and is
\* still FIRE
C15_Witness ==
    /\ prog = "forever_items"
    /\ obs.called
    /\ obs.before.state = FIRE
    /\ \E k \in 1..Len(obs.items) :
          /\ obs.items[k].type = "mushroom"
          /\ colliderect(obs.before.rect, obs.items[k].rect)
    /\ player.state = FIRE

\* The tier after touching the items its[i..] in turn, as the claim has it
RECURSIVE TierAfter(_, _, _)
TierAfter(state, its, i) ==
    IF i > Len(its) THEN state
    ELSE TierAfter(IF its[i].type = "mushroom" /\ state = SMALL THEN SUPER
                   ELSE IF its[i].type = "flower" THEN FIRE
                   ELSE state, its, i + 1)

\* C16 (geminiultramario1.x.py, ultra_mario_forever_1_0a.py): on overlap, a
\* mushroom upgrades the player only from SMALL, to SUPER; a flower upgrades
\* to FIRE from any lower tier; and every touched item is removed from the
\* item list in that step, whatever the player's tier.
C16_TouchedItemsUpgradeAndGo ==
    ItemsDone =>
        /\ player.state = TierAfter(obs.before.state,
                                    SelectSeq(obs.items,
                                              LAMBDA it : colliderect(obs.before.rect, it.rect)), 1)
        /\ items = SelectSeq(obs.items, LAMBDA it : ~colliderect(obs.before.rect, it.rect))

\* The coins of the list that lay on the player
CoinsTouched == Cardinality({k \in 1..Len(obs.coins) :
                               colliderect(obs.before.rect, obs.coins[k].rect)})

\* C17 (geminiultramario1.x.py, ultra_mario_forever_1_0a.py): the coin count
\* is in 0..99 after the step, and coins collected = 100 * lives granted +
\* the coin count: each coin adds 1, the 100th sets the count to 0 and adds
\* exactly 1 life. The touched coins leave the list.
C17_CoinRollOver ==
    ItemsDone =>
        /\ player.coins \in 0..99
        /\ obs.before.coins + CoinsTouched
              = 100 * (player.lives - obs.before.lives) + player.coins
        /\ Len(coins) = Len(obs.coins) - CoinsTouched

\* a player with 99 coins has collected two: one life more and 1 coin
C17_Witness ==
    /\ ItemsDone
    /\ obs.before.coins = 99
    /\ CoinsTouched = 2
    /\ player.lives = obs.before.lives + 1
    /\ player.coins = 1

-----------------------------------------------------------------------------
(* Invincibility, stomps and hazards                                       *)

\* C18 (geminiultramario1.x.py): a hurt event that downgrades the player
\* sets invincible_timer to 120; an update makes a hurt event only if the
\* countdown, after that update's decrement, is 0, so no enemy contact hurts
\* while it is above 0, the other enemies of the hit's own update included;
\* the countdown goes down by exactly 1 per update and never below 0.
C18_Invincibility ==
    /\ [](prog = "gemini" =>
            /\ player.invincible_timer \in 0..GemInvincibleFrames
            /\ obs.ev.hurts # <<>> => obs.before.invincible_timer <= 1
            /\ \A i \in 1..Len(obs.ev.hurts) :
                  obs.ev.hurts[i].from > SMALL
                      => /\ obs.ev.hurts[i].timer = GemInvincibleFrames
                         /\ i = Len(obs.ev.hurts))
    /\ [][prog = "gemini" =>
            player'.invincible_timer =
                IF \E i \in 1..Len(obs'.ev.hurts) : obs'.ev.hurts[i].from > SMALL
                THEN GemInvincibleFrames
                ELSE Max(player.invincible_timer - 1, 0)]_vars

\* half of the countdown gone, an enemy on the downgraded player, no hurt
C18_Witness ==
    /\ prog = "gemini"
    /\ player.invincible_timer \in 1..(GemInvincibleFrames \div 2)
    /\ obs.before.invincible_timer = player.invincible_timer + 1
    /\ \E k \in 1..Len(enemies) :
          ~enemies[k].is_stomped /\ colliderect(obs.before.rect, enemies[k].rect)
    /\ obs.ev.hurts = <<>>

\* C19 (geminiultramario1.x.py, ultrasmb4k.py): every enemy in the list that
\* the player's rectangle overlaps at the interaction check has exactly one
\* outcome. A player moving down with its bottom edge above the enemy's
\* centre (gemini), or at most 10 px below the enemy's top (smb4k), stomps:
\* the enemy is marked stomped or dead, the player's vertical velocity is the
\* bounce value, tier, lives and being alive are as before. Any other overlap
\* hurts the player (a lower tier or a life less in gemini, not alive in
\* smb4k) and leaves the enemy and the velocity alone; in gemini it changes
\* nothing while invincible_timer is above 0.
C19_StompOrHurt ==
    /\ prog = "gemini" =>
         \A k \in 1..Len(obs.ev.contacts) :
            LET c == obs.ev.contacts[k]
                stomp == /\ c.is_stomped
                         /\ c.after.vel_y = (Cent(GemJUMP_VELOCITY) * 6) \div 10
                         /\ c.after.state = c.state
                         /\ c.after.lives = c.lives
                hurt == /\ c.after.state < c.state \/ c.after.lives = c.lives - 1
                        /\ c.is_stomped = c.was_stomped
                none == /\ c.after = [vel_y |-> c.vel_y, state |-> c.state, lives |-> c.lives]
            IN  IF c.vel_y > 0 /\ c.bottom < c.centery THEN stomp /\ ~hurt
                ELSE IF c.timer = 0 THEN hurt /\ ~stomp
                ELSE none
    /\ prog = "smb4k" =>
         \A k \in 1..Len(obs.met) :
            LET c == obs.met[k]
                stomp == /\ ~c.enemy_alive
                         /\ c.after.vy = -SmbSTOMP_BOUNCE * SmbUnit
                         /\ c.after.alive = c.alive
                hurt == /\ ~c.after.alive
                        /\ c.enemy_alive
                        /\ c.after.vy = c.vy
            IN  IF c.vy > 0 /\ c.bottom - c.top <= 10 THEN stomp /\ ~hurt
                ELSE hurt /\ ~stomp

\* a Goomba stomped in smb4k by a player who then is in the air, alive
C19_Witness ==
    /\ prog = "smb4k"
    /\ Len(obs.met) = 1
    /\ ~obs.met[1].enemy_alive
    /\ obs.stomped # {}
    /\ player.vy < 0
    /\ ~obs.respawned

\* C20 (ultramario4k1.x.py): a level step that ends with Mario's rectangle
\* on a hazard, or with its top below SCREEN_H + 50, ends with the game in
\* the DEAD state.
C20_DeathCheckIsDeath ==
    (/\ prog = "hdr4k"
     /\ obs.handler = "update_level"
     /\ HdrCheckDeath(player, world.hazards))
        => mode.state = "DEAD"

-----------------------------------------------------------------------------
(* C21: falling below the level costs a life, invincible or not            *)

\* where gravity takes the player's top edge in the coming update
FallsTo(p, gravity, max_fall) ==
    AddTrunc(p.rect.y, Min(p.vel_y + Cent(gravity), Cent(max_fall)))

\* gemini: the coming update leaves the player's top edge more than 100 below
\* the screen; every solid of a level lies on the screen, so nothing stops
\* the move
GemBelow ==
    /\ prog = "gemini"
    /\ mode = "LEVEL"
    /\ FallsTo(player, GemGRAVITY, GemMAX_FALL_SPEED) > GemSCREEN_HEIGHT + 100
    /\ \A k \in 1..Len(world.wo) : RBottom(world.wo[k].rect) <= GemSCREEN_HEIGHT + 100

\* forever: the coming update leaves the player's bottom edge below the
\* screen, and no platform is within a step's reach of the player's column
FvrBelow ==
    /\ prog = "forever"
    /\ mode = "PLAYING"
    /\ FallsTo(player, FvrGRAVITY, FvrMAX_FALL_SPEED) + player.rect.h > FvrSCREEN_HEIGHT
    /\ \A k \in 1..Len(world.wo) :
          \/ RRight(world.wo[k]) <= RLeft(player.rect) - (FvrMAX_RUN_SPEED \div 100 + 1)
          \/ RLeft(world.wo[k]) >= RRight(player.rect) + (FvrMAX_RUN_SPEED \div 100 + 1)

\* C21: an update that finds the player falling below the level's vertical
\* bound (gemini: top edge beyond SCREEN_HEIGHT + 100; forever: bottom edge
\* beyond SCREEN_HEIGHT) calls die: it is recorded as a fall and the player
\* has fewer lives after it, whatever the invincibility countdown was.
C21_FallCostsLife ==
    [][(GemBelow \/ FvrBelow) => (obs'.ev.fell /\ player'.lives < player.lives)]_vars

\* a gemini player that was hit on the way to the left end of the ground has
\* fallen below the level with the countdown still running, and lost a life
C21_Witness ==
    /\ prog = "gemini"
    /\ obs.ev.fell
    /\ obs.before.invincible_timer > 1
    /\ FallsTo(obs.before, GemGRAVITY, GemMAX_FALL_SPEED) > GemSCREEN_HEIGHT + 100
    /\ player.lives = obs.before.lives - 1

-----------------------------------------------------------------------------
(* C22: VICTORY takes 31 level steps in a row at the flag                  *)

\* C22: the game enters VICTORY only in a level step that is the 31st in a
\* row to end with Mario's rectangle overlapping the pole or the flag
\* (victory_timer > FPS * 0.5); a level step that ends without overlap
\* leaves the count at 0, and while the level is played the count is the
\* number of steps the present contact has lasted.
C22_VictoryAfter31 ==
    [][prog = "hdr4k" =>
          /\ (mode'.state = "VICTORY" /\ mode.state # "VICTORY")
                => (obs'.handler = "update_level" /\ obs'.touching = 31)
          /\ (obs'.handler = "update_level" /\ ~HdrAtFlag(player', world'.flagpole))
                => mode'.victory_timer = 0
          /\ (obs'.handler = "update_level" /\ mode'.state = "LEVEL")
                => mode'.victory_timer = obs'.touching]_vars

\* the user who let go of the keys at the flag has stood in it for 31 steps
C22_Witness ==
    /\ prog = "hdr4k"
    /\ mode.state = "VICTORY"
    /\ obs.touching = 31
    /\ player.rect = Rect(2306, 400, 16, 32)

-----------------------------------------------------------------------------
(* C23: an enemy turns round at a wall, and only there                     *)

\* gemini: the rectangle of enemy e after its horizontal move overlaps a solid
GemWallAhead(e, wo) ==
    \E j \in 1..Len(wo) :
        colliderect([e.rect EXCEPT !.x = AddTrunc(@, e.vel_x)], wo[j].rect)

\* smb4k: the rectangle of Goomba g after its horizontal move overlaps a
\* solid tile
SmbWallAhead(g, lvl) ==
    LET x1 == g.x + IntRound(g.vx)
    IN  \E tx \in FloorDiv(x1, SmbTILE)..FloorDiv(x1 + g.width - 1, SmbTILE),
           ty \in FloorDiv(g.y, SmbTILE)..FloorDiv(g.y + g.height - 1, SmbTILE) :
            SmbIsSolid(lvl, tx, ty)

\* gemini: a level update that removes no enemy turns round exactly the
\* walking enemies with a wall ahead
GemTurnsAtWalls ==
    (prog = "gemini" /\ Len(enemies') = Len(enemies)) =>
        \A k \in 1..Len(enemies) :
            ~enemies'[k].is_stomped =>
                enemies'[k].vel_x = IF GemWallAhead(enemies[k], world'.wo)
                                    THEN -enemies[k].vel_x
                                    ELSE enemies[k].vel_x

\* smb4k: a fixed step that removes no Goomba turns round exactly the
\* Goombas with a wall ahead
SmbTurnsAtWalls ==
    (prog = "smb4k" /\ Len(world'.enemies) = Len(world.enemies)) =>
        \A k \in 1..Len(world.enemies) :
            world'.enemies[k].vx = IF SmbWallAhead(world.enemies[k], world)
                                   THEN -world.enemies[k].vx
                                   ELSE world.enemies[k].vx

\* C23: an enemy whose horizontal move runs into a solid has its horizontal
\* velocity negated in that very step, and an enemy whose move runs into no
\* solid keeps its velocity.
C23_TurnsAtWalls == [][GemTurnsAtWalls /\ SmbTurnsAtWalls]_vars

-----------------------------------------------------------------------------
(* C24: a stomped enemy lies still for 20 updates and is then removed      *)

\* the enemies whose countdown the coming update brings to 0
GemDue == {k \in 1..Len(enemies) : enemies[k].is_stomped /\ enemies[k].stomp_timer <= 1}

\* where enemy k is in the list after an update that removes the enemies due
GemPlaceAfter(k) == k - Cardinality({j \in GemDue : j < k})

\* C24: a level update removes from the enemy list exactly the stomped
\* enemies whose countdown it brings to 0; every other enemy stays, in order,
\* and one that is stomped before or in the update keeps its rectangle and
\* velocity through it, with its countdown one lower (19 after the update of
\* the stomp: an enemy that is not stomped has its countdown at 20).
C24_StompedLiesStill ==
    [][prog = "gemini" =>
         /\ Len(enemies') = Len(enemies) - Cardinality(GemDue)
         /\ \A k \in (1..Len(enemies)) \ GemDue :
               LET before == enemies[k]
                   after == enemies'[GemPlaceAfter(k)]
               IN  IF after.is_stomped
                   THEN /\ after.rect = before.rect
                        /\ after.vel_x = before.vel_x
                        /\ after.vel_y = before.vel_y
                        /\ after.stomp_timer = before.stomp_timer - 1
                        /\ after.stomp_timer > 0
                        /\ ~before.is_stomped => before.stomp_timer = GemStompFrames
                   ELSE ~before.is_stomped /\ after.stomp_timer = GemStompFrames]_vars

\* the one enemy of the level has been stomped, once, and its countdown has
\* run out: the list is empty
C24_Witness ==
    /\ prog = "gemini"
    /\ player.score = 100
    /\ player.coins = 0
    /\ enemies = <<>>

-----------------------------------------------------------------------------
(* C25: where the enemies are when the player is tested against them       *)

\* C25: the rectangle of an enemy that a step's stomp/hurt test found
\* overlapping the player is the rectangle the step's own enemy update
\* leaves that enemy with (steps that remove no enemy from the list).
C25_TestedWhereMoved ==
    [][(prog \in {"gemini", "forever"} /\ Len(enemies') = Len(enemies)) =>
          \A n \in 1..Len(obs'.ev.contacts) :
             obs'.ev.contacts[n].enemy = enemies'[obs'.ev.contacts[n].i].rect]_vars

-----------------------------------------------------------------------------
(* C26: the bounce of a brick                                              *)

\* C26: a brick that a small player has hit from below is still a brick, its
\* bounce timer runs from 6 down, and through the bounce the rectangle the
\* collision tests use is where it was before the hit.
C26_BounceIsCosmetic ==
    prog = "gemini" =>
        \A k \in 1..Len(world.wo) :
            (world.wo[k].kind0 = "BRICK" /\ world.wo[k].is_hit) =>
                /\ world.wo[k].type = "BRICK"
                /\ world.wo[k].hit_timer \in 1..6
                /\ world.wo[k].rect.y = world.wo[k].original_y

-----------------------------------------------------------------------------
(* ultrasmb4k.py: the level play continues in after a death                *)

\* C27: after a fixed step in which the player died and was put back at the
\* spawn, the level play continues in is as gen_level1 made it: every coin
\* is there, every Goomba is there and the grid holds the tiles generated.
C27_FreshAfterDeath ==
    (prog = "smb4k" /\ obs.respawned) =>
        /\ world.coins = SmbStartLevel.coins
        /\ Len(world.enemies) = Len(SmbStartLevel.enemies)
        /\ world.grid = SmbStartLevel.grid

-----------------------------------------------------------------------------
(* ultrasmb4k.py: the level the R key makes                                *)

\* C28: the level in play right after an R key-down is the one main first
\* generated for that level index, in tiles, coins, enemies, spawn and flag,
\* whatever was played before.
C28_ResetRestoresFirst ==
    (prog = "smb4k" /\ obs.reset) => world = SmbLevels[mode.level_index + 1]

-----------------------------------------------------------------------------
(* The cameras, called on their own                                        *)

\* geminiultramario1.x.py: Camera(width, height)
GemCamera(width, height) ==
    [camera |-> Rect(0, 0, width, height), width |-> width, height |-> height]

\* geminiultramario1.x.py: Camera.update(target); int(SCREEN_WIDTH / 2) is 320
GemCameraUpdate(cam, target) ==
    [cam EXCEPT !.camera = Rect(Max(-(cam.width - GemSCREEN_WIDTH),
                                    Min(0, -RCenterX(target.rect) + GemSCREEN_WIDTH \div 2)),
                                0, cam.width, cam.height)]

\* ultramario4k1.x.py: Camera(level_width_px)
HdrCamera(level_width_px) == [camx |-> 0, level_width_px |-> level_width_px]

\* ultramario4k1.x.py: Camera.update(focus_rect); int(SCREEN_W * 0.4) is 256
HdrCameraUpdate(cam, focus_rect) ==
    [cam EXCEPT !.camx = clamp(RCenterX(focus_rect) - (HdrSCREEN_W * 4) \div 10, 0,
                               cam.level_width_px - HdrSCREEN_W)]

\* Tiles of the gemini levels the cameras are called on: those of the levels
\* played above, one just wider than the screen and one well wider
GemLengths == {GemLevelOverhead.length, GemLevelMushroom.length, 27, 40}

\* Where the player is put, in px from either end of a level of width px
CamReach == 340
CamStride == 85
CamPositions(width) ==
    { k * CamStride - CamReach : k \in 0 .. (2 * CamReach) \div CamStride }
    \cup { width + k * CamStride - CamReach : k \in 0 .. (2 * CamReach) \div CamStride }
    \cup { width \div 2 }

\* Camera updates in a row
CamMaxUpdates == 2

\* A level just started: the camera as constructed, the player where the
\* program puts it (gemini: reset_position; hdr4k: start_level;
\* smb4k: spawn_px)
InitCamera ==
    /\ prog \in {"gemini_camera", "hdr4k_camera", "smb4k_camera"}
    /\ world \in CASE prog = "gemini_camera" ->
                        { [level_width |-> n * 24] : n \in GemLengths }
                   [] prog = "hdr4k_camera" ->
                        { [level_width |-> (120 + w * 8 + (st - 1) * 4) * HdrTILE] :
                            w \in 1..8, st \in 1..4 }
                   [] OTHER ->
                        { [level_width |-> SmbLevels[k].wt * SmbTILE, wt |-> SmbLevels[k].wt] :
                            k \in 1..Len(SmbLevels) }
    /\ mode = CASE prog = "gemini_camera" -> GemCamera(world.level_width, GemSCREEN_HEIGHT)
                [] prog = "hdr4k_camera" -> HdrCamera(world.level_width)
                [] OTHER -> [x |-> 0]
    /\ player = CASE prog = "gemini_camera" ->
                       [rect |-> Rect(100, GemSCREEN_HEIGHT - 150, 20, GemSetSize(SMALL))]
                  [] prog = "hdr4k_camera" -> [rect |-> Rect(HdrTILE * 2, HdrSCREEN_H - HdrTILE * 3 - 32, 16, 32)]
                  [] OTHER -> [rect |-> Rect(40, 300, 14, 18)]
    /\ enemies = <<>>
    /\ coins = <<>>
    /\ items = <<>>
    /\ input = [updates |-> CamMaxUpdates]
    /\ obs = [updated |-> FALSE]

\* What the cameras are called with: the player at one of the positions
CamMoved(x) == [player EXCEPT !.rect.x = x]

\* self.camera.update(self.player) of LevelManager.update
GemCameraCall ==
    /\ prog = "gemini_camera"
    /\ input.updates > 0
    /\ \E x \in CamPositions(world.level_width) :
          /\ player' = CamMoved(x)
          /\ mode' = GemCameraUpdate(mode, player')
    /\ input' = [input EXCEPT !.updates = @ - 1]
    /\ obs' = [updated |-> TRUE]
    /\ UNCHANGED <<prog, world, enemies, coins, items>>

\* self.camera.update(self.mario.rect) of update_level
HdrCameraCall ==
    /\ prog = "hdr4k_camera"
    /\ input.updates > 0
    /\ \E x \in CamPositions(world.level_width) :
          /\ player' = CamMoved(x)
          /\ mode' = HdrCameraUpdate(mode, player'.rect)
    /\ input' = [input EXCEPT !.updates = @ - 1]
    /\ obs' = [updated |-> TRUE]
    /\ UNCHANGED <<prog, world, enemies, coins, items>>

\* cam.update(player.rect, lvl, FIXED_DT) of main
SmbCameraCall ==
    /\ prog = "smb4k_camera"
    /\ input.updates > 0
    /\ \E x \in CamPositions(world.level_width) :
          /\ player' = CamMoved(x)
          /\ mode' = [x |-> SmbCameraUpdate(mode.x, player'.rect, world)]
    /\ input' = [input EXCEPT !.updates = @ - 1]
    /\ obs' = [updated |-> TRUE]
    /\ UNCHANGED <<prog, world, enemies, coins, items>>

NextCamera == GemCameraCall \/ HdrCameraCall \/ SmbCameraCall

SpecCamera == InitCamera /\ [][NextCamera]_vars

-----------------------------------------------------------------------------
(* ultrasmb4k.py: main's frames, from the clock tick to the render         *)

\* The loop that never stops for the count of its iterations
SmbStepDue_Uncapped(accumulator, iterations) == accumulator >= SmbFIXED_DT

\* while accumulator >= FIXED_DT and iterations < 8
SmbStepDue(accumulator, iterations) == accumulator >= SmbFIXED_DT /\ iterations < 8

\* Frames a run renders
SmbMaxFrames == 3

\* What clock.tick_busy_loop(60) may return, in ms: a frame on time, a late
\* one, and one of more than nine fixed steps
SmbFrameTimes == {16, 17, 40, 150}

\* main before its loop; the user holds right throughout. input holds the
\* loop's accumulator (in 1/1000000 s, as SmbFIXED_DT) and iterations, where
\* the frame is at, and the accumulator the last step found.
InitSmbMain ==
    /\ prog = "smb4k_main"
    /\ mode = [level_index |-> 0, cam |-> 0]
    /\ world = SmbStartLevel
    /\ player = SmbStartPlayer(world)
    /\ enemies = <<>>
    /\ coins = <<>>
    /\ items = <<>>
    /\ input = [frames |-> SmbMaxFrames, accumulator |-> 0, iterations |-> 0,
                at |-> "render", found |-> 0]
    /\ obs = SmbNoObs

\* dt_real = clock.tick_busy_loop(int(FPS_TARGET)) / 1000.0;
\* accumulator += dt_real * time_scale; iterations = 0
SmbFrameTick ==
    /\ prog = "smb4k_main"
    /\ input.at = "render"
    /\ input.frames > 0
    /\ \E ms \in SmbFrameTimes :
          input' = [input EXCEPT !.frames = @ - 1, !.accumulator = @ + ms * 1000,
                                 !.iterations = 0, !.at = "tick"]
    /\ UNCHANGED <<prog, mode, player, world, enemies, coins, items, obs>>

\* one pass of the while loop
SmbFrameStep ==
    /\ prog = "smb4k_main"
    /\ input.at \in {"tick", "step"}
    /\ SmbStepDue(input.accumulator, input.iterations)
    /\ input' = [input EXCEPT !.accumulator = @ - SmbFIXED_DT, !.iterations = @ + 1,
                              !.at = "step", !.found = input.accumulator]
    /\ SmbFixedStep([left |-> FALSE, right |-> TRUE, shift |-> FALSE, jump |-> FALSE])

\* the loop left: Render
SmbFrameRender ==
    /\ prog = "smb4k_main"
    /\ input.at \in {"tick", "step"}
    /\ ~SmbStepDue(input.accumulator, input.iterations)
    /\ input' = [input EXCEPT !.at = "render"]
    /\ UNCHANGED <<prog, mode, player, world, enemies, coins, items, obs>>

NextSmbMain == SmbFrameTick \/ SmbFrameStep \/ SmbFrameRender

SpecSmbMain == InitSmbMain /\ [][NextSmbMain]_vars

\* C30: whatever the frames last, a frame runs at most 8 fixed steps, each
\* step leaves the accumulator exactly FIXED_DT below what it found, the
\* accumulator is never negative, and the loop is left with the accumulator
\* below FIXED_DT or with exactly 8 steps run.
C30_StepLoopBounded ==
    prog = "smb4k_main" =>
        /\ input.iterations \in 0..8
        /\ input.accumulator >= 0
        /\ input.at = "step" => input.accumulator = input.found - SmbFIXED_DT
        /\ input.at = "render" => (input.accumulator < SmbFIXED_DT \/ input.iterations = 8)

\* a frame of 150 ms: 8 steps run and more than one step's time is left over
C30_Witness ==
    /\ prog = "smb4k_main"
    /\ input.at = "render"
    /\ input.iterations = 8
    /\ input.accumulator >= SmbFIXED_DT
    /\ obs.stepped

-----------------------------------------------------------------------------
(* ultrasmb4k.py: the hold force of a jump                                 *)

\* A step that took the hold force: apart from a stomp or a respawn, which
\* give vy a value of their own, vy ends JUMP_HOLD_FORCE * dt above (in
\* speed upwards) what gravity alone leaves
SmbHoldSeen ==
    /\ obs.stepped
    /\ obs.before.alive
    /\ obs.stomped = {}
    /\ ~obs.respawned
    /\ player.vy = obs.before.vy - TimesDt(SmbJUMP_HOLD_FORCE) + TimesDt(SmbGRAVITY)

\* C31: the hold force is taken only in steps that follow a liftoff from the
\* ground directly, one after the other, with the jump key held in each, and
\* in at most 6 of them; after a step without the key, or after the sixth,
\* none is taken before the next liftoff.
C31_HoldAfterLiftoff ==
    (prog = "smb4k" /\ SmbHoldSeen) => input.run \in 2..7

\* the sixth step in a row that takes the hold force
C31_Witness ==
    /\ prog = "smb4k"
    /\ SmbHoldSeen
    /\ input.run = 7

-----------------------------------------------------------------------------
(* geminiultramario1.x.py: the run key                                     *)

\* C32: a frame that the run key is up before and after (it was released,
\* or never pressed) accelerates by WALK_ACCEL at most and leaves the speed
\* within MAX_WALK_SPEED.
C32_WalkAfterRelease ==
    [][(prog = "gemini" /\ ~input.shift /\ ~input'.shift) =>
          /\ Abs(player'.acc_x) <= Cent(GemWALK_ACCEL)
          /\ Abs(player'.vel_x) <= Cent(GemMAX_WALK_SPEED)]_vars

-----------------------------------------------------------------------------
(* geminiultramario1.x.py, ultra_mario_forever_1_0a.py: friction           *)

\* C33: a step with left or right held leaves vel_x at the velocity it found
\* plus the acceleration, cut to the speed cap: no friction factor has been
\* applied to it. (0 is what a wall, the dead zone or a new start leave.)
C33_NoFrictionUnderInput ==
    (prog \in {"gemini", "forever"} /\ input.dir # 0) =>
        LET run == obs.before.running
            accel == IF prog = "gemini"
                     THEN Cent(IF run THEN GemRUN_ACCEL ELSE GemWALK_ACCEL)
                     ELSE Cent(IF run THEN FvrRUN_ACCEL ELSE FvrWALK_ACCEL)
            max_speed == IF prog = "gemini"
                         THEN Cent(IF run THEN GemMAX_RUN_SPEED ELSE GemMAX_WALK_SPEED)
                         ELSE Cent(IF run THEN FvrMAX_RUN_SPEED ELSE FvrMAX_WALK_SPEED)
        IN  player.vel_x \in {0, Max(-max_speed,
                                     Min(max_speed, obs.before.vel_x + input.dir * accel))}

-----------------------------------------------------------------------------
(* ultra_mario_forever_1_0a.py: the overworld map and the main loop        *)

\* event loops get at most this many key events in one frame
FvrMaxEvents == 1

FvrWorlds == 5
FvrLevelsPerWorld == 3
FvrLevelTime == 400
FvrLives == 5

\* build_overworld_map: 5 worlds x 3 levels in path order, the first unlocked
FvrBuildOverworldMap ==
    [idx \in 1..(FvrWorlds * FvrLevelsPerWorld) |->
        [world |-> ((idx - 1) \div FvrLevelsPerWorld) + 1,
         level |-> ((idx - 1) % FvrLevelsPerWorld) + 1,
         unlocked |-> (idx = 1),
         cleared |-> FALSE]]

FvrMapKeys == {"K_RETURN", "K_SPACE", "K_RIGHT", "K_LEFT", "K_ESCAPE", "K_r"}

\* the locals of main that the map and the stage flow live in; nodes[i + 1]
\* is the source's nodes[i], selected_index counts from 0 as in the source
FvrMainStart ==
    [mode |-> "MENU", running |-> TRUE, selected_index |-> 0,
     current_world |-> 1, current_level |-> 1, level_time |-> FvrLevelTime,
     nodes |-> FvrBuildOverworldMap, lives |-> FvrLives, at_start |-> FALSE]

\* K_RIGHT on the map: one node on, if the next node is unlocked
FvrMapRight_AnyNode(s) ==
    [s EXCEPT !.selected_index = Min(Len(s.nodes) - 1, @ + 1)]

FvrAhead(s, i, ahead) ==
    LET RECURSIVE Walk(_, _)
        Walk(j, a) == IF j >= Len(s.nodes) THEN a
                      ELSE IF s.nodes[j + 1].unlocked THEN Walk(j + 1, j)
                      ELSE a
    IN  Walk(i, ahead)

FvrMapRight(s) ==
    LET ahead == FvrAhead(s, s.selected_index + 1, s.selected_index)
    IN  IF ahead # s.selected_index
        THEN [s EXCEPT !.selected_index = Min(ahead, s.selected_index + 1)]
        ELSE s

\* K_RETURN / K_SPACE on the map: start the selected level if unlocked
FvrMapStart(s) ==
    LET node == s.nodes[s.selected_index + 1]
    IN  IF node.unlocked
        THEN [s EXCEPT !.current_world = node.world,
                       !.current_level = node.level,
                       !.level_time = FvrLevelTime,
                       !.at_start = TRUE,
                       !.mode = "PLAYING"]
        ELSE s

\* one event of the event loop, by the mode it finds
FvrMainEvent(s, key) ==
    IF s.mode = "MENU"
    THEN IF key \in {"K_RETURN", "K_SPACE"} THEN [s EXCEPT !.mode = "MAP"]
         ELSE IF key = "K_ESCAPE" THEN [s EXCEPT !.running = FALSE]
         ELSE s
    ELSE IF s.mode = "MAP"
    THEN IF key = "K_RIGHT" THEN FvrMapRight(s)
         ELSE IF key = "K_LEFT"
         THEN (IF s.selected_index > 0
               THEN [s EXCEPT !.selected_index = @ - 1] ELSE s)
         ELSE IF key \in {"K_RETURN", "K_SPACE"} THEN FvrMapStart(s)
         ELSE IF key = "K_ESCAPE" THEN [s EXCEPT !.mode = "MENU"]
         ELSE s
    ELSE IF s.mode = "PLAYING"
    THEN s    \* jump_buffer and running: the player's, not the map's
    ELSE IF key = "K_r"
         THEN [FvrMainStart EXCEPT !.mode = "MENU"]
         ELSE s

RECURSIVE FvrMainEvents(_, _)
FvrMainEvents(s, keys) ==
    IF keys = <<>> THEN s
    ELSE FvrMainEvents(FvrMainEvent(s, Head(keys)), Tail(keys))

\* the time update of a PLAYING frame; second: time_counter reached 1.0
FvrTimeUpdate(s, second) ==
    IF ~second THEN s
    ELSE LET t == [s EXCEPT !.level_time = @ - 1]
         IN  IF t.level_time <= 0
             THEN LET d == [t EXCEPT !.lives = @ - 1, !.at_start = TRUE]
                  IN  IF d.lives <= 0 THEN [d EXCEPT !.mode = "GAME_OVER"]
                      ELSE [d EXCEPT !.level_time = FvrLevelTime, !.mode = "MAP"]
             ELSE t

\* level complete check (reach flag area)
FvrLevelComplete(s) ==
    LET c == [s EXCEPT !.nodes[s.selected_index + 1].cleared = TRUE]
        n == IF c.selected_index + 1 < Len(c.nodes)
             THEN [c EXCEPT !.nodes[c.selected_index + 2].unlocked = TRUE,
                            !.selected_index = @ + 1,
                            !.current_world = c.nodes[c.selected_index + 2].world,
                            !.current_level = c.nodes[c.selected_index + 2].level,
                            !.mode = "MAP"]
             ELSE [c EXCEPT !.mode = "GAME_COMPLETE"]
    IN  [n EXCEPT !.level_time = FvrLevelTime]

\* death handling
FvrDeathHandling(s, lives_before) ==
    IF s.lives < lives_before
    THEN IF s.lives <= 0 THEN [s EXCEPT !.mode = "GAME_OVER"]
         ELSE [s EXCEPT !.level_time = FvrLevelTime, !.mode = "MAP"]
    ELSE s

\* What Player.update leaves for main to read: "flag" when the rectangle's
\* right side is at SCREEN_WIDTH - 50 or beyond, "life" when die() ran, "none"
\* otherwise. die() puts the player back at x = 50, so the two exclude each
\* other, and a player that was put at the start in this frame is at neither.
FvrUpdateOutcomes(s) ==
    IF s.at_start THEN {"none"} ELSE {"none", "flag", "life"}

\* the update part of one pass of the main loop
FvrMainUpdate(s, second, out) ==
    IF s.mode # "PLAYING" THEN s
    ELSE LET t == FvrTimeUpdate(s, second)
             lives_before == t.lives
             u == IF out = "life" THEN [t EXCEPT !.lives = @ - 1] ELSE t
             c == IF out = "flag" THEN FvrLevelComplete(u) ELSE u
         IN  FvrDeathHandling(c, lives_before)

FvrKeySeqs == UNION {[1..n -> FvrMapKeys] : n \in 0..FvrMaxEvents}

InitFvrMap ==
    /\ prog = "forever_map"
    /\ mode = FvrMainStart
    /\ player = [lives |-> FvrLives]
    /\ world = <<>>
    /\ enemies = <<>>
    /\ coins = <<>>
    /\ items = <<>>
    /\ input = <<>>
    /\ obs = [started |-> FALSE, cleared |-> FALSE, died |-> FALSE,
              selected_index |-> 0, was_cleared |-> FALSE]

\* one pass of the while loop of main: the events, then the update
FvrMainLoop(keys, second, out) ==
    /\ prog = "forever_map"
    /\ mode.running
    /\ LET e == FvrMainEvents(mode, keys)
           t == FvrTimeUpdate(e, second)
       IN  /\ out \in FvrUpdateOutcomes(IF e.mode = "PLAYING" THEN t ELSE e)
           /\ LET n == FvrMainUpdate(e, second, out)
              IN  /\ mode' = [n EXCEPT !.at_start = FALSE]
                  /\ player' = [lives |-> n.lives]
                  /\ obs' = [started |-> mode.mode = "MAP" /\ e.mode = "PLAYING",
                             cleared |-> e.mode = "PLAYING" /\ out = "flag",
                             died |-> n.lives < e.lives,
                             selected_index |-> e.selected_index,
                             was_cleared |-> e.nodes[e.selected_index + 1].cleared]
    /\ UNCHANGED <<prog, world, enemies, coins, items, input>>

\* a frame without key events that main acts on (in PLAYING the key events
\* reach the player only, and FvrUpdateOutcomes covers what they lead to)
FvrLoopIdle ==
    \E second \in BOOLEAN, out \in {"none", "flag", "life"} :
        /\ mode.mode = "PLAYING"
        /\ FvrMainLoop(<<>>, second, out)

\* a frame with key events in MENU, MAP, GAME_OVER or GAME_COMPLETE; a stage
\* started by them has time_counter = 0.0 and the player at the start
FvrLoopKeys ==
    \E keys \in FvrKeySeqs \ {<<>>} :
        /\ mode.mode # "PLAYING"
        /\ FvrMainLoop(keys, FALSE, "none")

NextFvrMap == FvrLoopIdle \/ FvrLoopKeys

SpecFvrMap == InitFvrMap /\ [][NextFvrMap]_vars

\* C34: the unlocked nodes are a prefix of the path whose nodes before the
\* last unlocked one are all cleared, and the selected node is unlocked (so a
\* stage starts from an unlocked node only); a frame that cleared a stage
\* ends on the map with the next node unlocked and selected, or in
\* GAME_COMPLETE after the last node; a frame with a death ends on the map
\* with the stage's cleared flag as it was when lives remain, and in
\* GAME_OVER when lives are 0 or less.
C34_MapProgression ==
    prog = "forever_map" =>
        LET nodes == mode.nodes
            played == obs.selected_index + 1
        IN  /\ nodes[1].unlocked
            /\ \A k \in 1..(Len(nodes) - 1) :
                   nodes[k + 1].unlocked => nodes[k].unlocked /\ nodes[k].cleared
            /\ nodes[mode.selected_index + 1].unlocked
            /\ mode.mode = "PLAYING" => nodes[mode.selected_index + 1].unlocked
            /\ obs.started => nodes[played].unlocked
            /\ obs.cleared =>
                   /\ nodes[played].cleared
                   /\ IF played < Len(nodes)
                      THEN /\ mode.mode = "MAP"
                           /\ mode.selected_index = played
                           /\ nodes[played + 1].unlocked
                      ELSE mode.mode = "GAME_COMPLETE"
            /\ obs.died =>
                   IF player.lives > 0
                   THEN /\ mode.mode = "MAP"
                        /\ nodes[played].cleared = obs.was_cleared
                        /\ mode.selected_index = obs.selected_index
                   ELSE mode.mode = "GAME_OVER"

\* a death with lives left on a stage past the first: back on the map
C34_Witness ==
    /\ prog = "forever_map"
    /\ obs.died
    /\ player.lives > 0
    /\ mode.mode = "MAP"
    /\ mode.selected_index > 0
    /\ ~mode.nodes[mode.selected_index + 1].cleared

-----------------------------------------------------------------------------
(* ultrasmb4k.py: two runs under the same key snapshots                    *)

\* Steps a user without a plan takes when two runs are compared
SmbTwinSteps == 24

SmbTwinSessions ==
    { [u EXCEPT !.steps = SmbTwinSteps] : u \in {v \in SmbSessions : v.plan = <<>>} }
    \cup {v \in SmbSessions : v.plan # <<>>}

\* The first run is the one of InitSmb; the second run's player, level and
\* camera, and the steps it has left, are in items. Both start from the
\* same generated level.
InitSmbTwin ==
    /\ prog = "smb4k"
    /\ mode = [level_index |-> 0, cam |-> 0]
    /\ world = SmbStartLevel
    /\ player = SmbStartPlayer(world)
    /\ enemies = <<>>
    /\ coins = <<>>
    /\ input \in SmbTwinSessions
    /\ items = [p |-> player, lvl |-> world, cam |-> 0, steps |-> input.steps]
    /\ obs = SmbNoObs

\* the snapshot the second run never gets: no key held
SmbTwinKeys_NoneHeld ==
    [left |-> FALSE, right |-> FALSE, shift |-> FALSE, jump |-> FALSE]

\* keys = pygame.key.get_pressed() of the second run's step: the snapshot the
\* first run had in its step of the same number
SmbTwinKeys == obs.keys

\* a fixed step of the first run, taken when the runs are level
SmbTwinFirst ==
    /\ items.steps = input.steps
    /\ NextSmb

\* the fixed step of the same number in the second run
SmbTwinSecond ==
    /\ prog = "smb4k"
    /\ items.steps > input.steps
    /\ LET t == SmbFixedStepOf(items.p, items.lvl, items.cam, SmbTwinKeys)
       IN  items' = [p |-> t.p, lvl |-> t.lvl, cam |-> t.cam, steps |-> items.steps - 1]
    /\ UNCHANGED <<prog, mode, player, world, enemies, coins, input, obs>>

NextSmbTwin == SmbTwinFirst \/ SmbTwinSecond

SpecSmbTwin == InitSmbTwin /\ [][NextSmbTwin]_vars

-----------------------------------------------------------------------------
(* geminiultramario1.x.py: enemies already stomped                         *)

\* C36: an overlap with an enemy that was marked stomped before the contact
\* leaves the player's tier, lives and vertical velocity as it found them:
\* no hurt, no second bounce.
C36_StompedIsInert ==
    prog = "gemini" =>
        \A k \in 1..Len(obs.ev.contacts) :
            LET c == obs.ev.contacts[k]
            IN  c.was_stomped =>
                    c.after = [vel_y |-> c.vel_y, state |-> c.state, lives |-> c.lives]

-----------------------------------------------------------------------------
(* geminiultramario1.x.py, ultra_mario_forever_1_0a.py: height and tier    *)

\* C37: the player's rectangle has the small height (20 in gemini, 16 in
\* forever) exactly when the tier is SMALL, and the tall height (40, 32)
\* exactly when it is SUPER or FIRE.
C37_HeightFollowsTier ==
    /\ prog \in {"gemini", "gemini_items"} =>
          player.rect.h = (IF player.state = SMALL THEN 20 ELSE 40)
    /\ prog \in {"forever", "forever_items"} =>
          player.rect.h = (IF player.state = SMALL THEN 16 ELSE 32)

-----------------------------------------------------------------------------
(* ultramario4k1.x.py: Game, the screens                                   *)

\* key-down events one frame's event list holds at most
HdrMaxEvents == 2

\* the keys the screens act on (K_r is the level's)
HdrKeys == {"K_LEFT", "K_RIGHT", "K_UP", "K_DOWN", "K_RETURN", "K_ESCAPE"}

HdrEventLists == UNION {[1..n -> HdrKeys] : n \in 0..HdrMaxEvents}

\* self.level = None; self.camera = None
HdrNoLevel == [world_no |-> 0, stage |-> 0, width_px |-> 0]
HdrNoCamera == [camx |-> 0, level_width_px |-> 0]

\* Game.__init__
HdrGame ==
    [state |-> "MENU", world |-> 1, stage |-> 1, level |-> HdrNoLevel,
     camera |-> HdrNoCamera, death_timer |-> 0, victory_timer |-> 0, calls |-> <<>>]

\* Game.start_level; calls lists the calls of the frame with the handler, the
\* arguments and the (world, stage) the call found. The level is kept by what
\* it was built for and its width, the camera as Camera.__init__ leaves it.
HdrGameStartLevel(g, handler, world_no, stage) ==
    LET width_px == HdrBuildLevel(world_no, stage).level_width
    IN  [g EXCEPT !.world = world_no, !.stage = stage,
                  !.level = [world_no |-> world_no, stage |-> stage, width_px |-> width_px],
                  !.camera = HdrCamera(width_px),
                  !.state = "LEVEL", !.death_timer = 0, !.victory_timer = 0,
                  !.calls = Append(@, [handler |-> handler, world |-> world_no,
                                       stage |-> stage, at |-> <<g.world, g.stage>>,
                                       from |-> g.state])]

\* Game.update_menu, one event
HdrUpdateMenu(g, key) ==
    IF key = "K_RETURN" THEN [g EXCEPT !.state = "MAP"] ELSE g

\* Game.update_map, one event
HdrUpdateMap(g, key) ==
    IF key = "K_LEFT" THEN [g EXCEPT !.world = Max(1, @ - 1)]
    ELSE IF key = "K_RIGHT" THEN [g EXCEPT !.world = Min(8, @ + 1)]
    ELSE IF key = "K_UP" THEN [g EXCEPT !.stage = Min(4, @ + 1)]
    ELSE IF key = "K_DOWN" THEN [g EXCEPT !.stage = Max(1, @ - 1)]
    ELSE IF key = "K_RETURN" THEN HdrGameStartLevel(g, "update_map", g.world, g.stage)
    ELSE IF key = "K_ESCAPE" THEN [g EXCEPT !.state = "MENU"]
    ELSE g

\* the level after world-stage without the wrap from world 8
HdrVictoryNext_NoWrap(world_no, stage) ==
    LET ns == (stage % 4) + 1
    IN  <<IF ns = 1 THEN world_no + 1 ELSE world_no, ns>>

\* Game.update_victory: nw, ns
HdrVictoryNext(world_no, stage) ==
    LET ns == (stage % 4) + 1
    IN  <<IF ns = 1 THEN (world_no % 8) + 1 ELSE world_no, ns>>

\* Game.update_victory, one event
HdrUpdateVictory(g, key) ==
    IF key = "K_RETURN"
    THEN LET n == HdrVictoryNext(g.world, g.stage)
         IN  HdrGameStartLevel(g, "update_victory", n[1], n[2])
    ELSE IF key = "K_ESCAPE" THEN [g EXCEPT !.state = "MAP"]
    ELSE g

\* Game.update_dead, one event
HdrUpdateDead(g, key) ==
    IF key = "K_RETURN" THEN HdrGameStartLevel(g, "update_dead", g.world, g.stage)
    ELSE IF key = "K_ESCAPE" THEN [g EXCEPT !.state = "MAP"]
    ELSE g

\* the event loop of update_menu, update_map, update_victory or update_dead:
\* every event of the list goes through the handler that run chose
RECURSIVE HdrEachEvent(_, _, _)
HdrEachEvent(g, handler, events) ==
    IF events = <<>> THEN g
    ELSE LET key == Head(events)
             n == IF handler = "MENU" THEN HdrUpdateMenu(g, key)
                  ELSE IF handler = "MAP" THEN HdrUpdateMap(g, key)
                  ELSE IF handler = "VICTORY" THEN HdrUpdateVictory(g, key)
                  ELSE HdrUpdateDead(g, key)
         IN  HdrEachEvent(n, handler, Tail(events))

\* Game.update_level by what Mario.update leaves it to read: out is "flag"
\* when Mario's rectangle meets the pole or the flag, "death" when check_death
\* holds, "none" otherwise. The pole stands on the ground and the lava lies
\* two tiles under the ground's top, further apart than Mario is tall, and a
\* Mario fallen below the screen is under both: no rectangle meets the flag
\* and dies. key is the first R or ESC key-down of the events, or "none".
HdrGameUpdateLevel(g, key, out) ==
    LET flag == IF out = "flag"
                THEN IF (g.victory_timer + 1) * 2 > HdrFPS
                     THEN [g EXCEPT !.state = "VICTORY", !.victory_timer = 0]
                     ELSE [g EXCEPT !.victory_timer = @ + 1]
                ELSE [g EXCEPT !.victory_timer = 0]
        death == IF out = "death"
                 THEN IF (flag.death_timer + 1) * 10 > HdrFPS * 3
                      THEN [flag EXCEPT !.state = "DEAD", !.death_timer = 0]
                      ELSE [flag EXCEPT !.death_timer = @ + 1]
                 ELSE [flag EXCEPT !.death_timer = 0]
    IN  IF key = "K_r" THEN HdrGameStartLevel(g, "update_level", g.world, g.stage)
        ELSE IF key = "K_ESCAPE" THEN [g EXCEPT !.state = "MAP"]
        ELSE death

InitHdrGame ==
    /\ prog = "hdr4k_game"
    /\ mode = HdrGame
    /\ player = <<>>
    /\ world = <<>>
    /\ enemies = <<>>
    /\ coins = <<>>
    /\ items = <<>>
    /\ input = <<>>
    /\ obs = [state |-> "MENU"]

\* one pass of the loop of Game.run that ends in state g (a frame whose
\* events hold a QUIT or a q ends the program and is not followed)
HdrGameRun(g) ==
    /\ prog = "hdr4k_game"
    /\ mode' = g
    /\ obs' = [state |-> mode.state]
    /\ UNCHANGED <<prog, player, world, enemies, coins, items, input>>

\* a frame of the level without an R or ESC key-down
HdrGameLevelFrame ==
    /\ mode.state = "LEVEL"
    /\ \E out \in {"none", "flag", "death"} :
          HdrGameRun(HdrGameUpdateLevel([mode EXCEPT !.calls = <<>>], "none", out))

\* a frame of the level with an R or ESC key-down among its events; the
\* users leave for the map while no timer counts
HdrGameLevelKeys ==
    /\ mode.state = "LEVEL"
    /\ \E key \in {"K_r", "K_ESCAPE"} :
          /\ key = "K_ESCAPE" => mode.death_timer = 0 /\ mode.victory_timer = 0
          /\ HdrGameRun(HdrGameUpdateLevel([mode EXCEPT !.calls = <<>>], key, "none"))

\* a frame of the menu, the map, the victory or the dead screen with key-downs
HdrGameScreenKeys ==
    /\ mode.state # "LEVEL"
    /\ \E events \in HdrEventLists \ {<<>>} :
          HdrGameRun(HdrEachEvent([mode EXCEPT !.calls = <<>>], mode.state, events))

NextHdrGame == HdrGameLevelFrame \/ HdrGameLevelKeys \/ HdrGameScreenKeys

SpecHdrGame == InitHdrGame /\ [][NextHdrGame]_vars

\* the level after world-stage, from the table of 8 worlds of 4 stages
HdrSuccessor(world_no, stage) ==
    IF stage < 4 THEN <<world_no, stage + 1>>
    ELSE IF world_no < 8 THEN <<world_no + 1, 1>>
    ELSE <<1, 1>>

\* C38: world is in 1..8 and stage in 1..4 in every state, and every
\* start_level that update_victory calls on ENTER is for the successor of the
\* (world, stage) it finds: (world, stage + 1) for stage < 4, (world + 1, 1)
\* after stage 4, 1-1 after 8-4.
C38_WorldStageSuccessor ==
    prog = "hdr4k_game" =>
        /\ mode.world \in 1..8
        /\ mode.stage \in 1..4
        /\ \A k \in 1..Len(mode.calls) :
              LET c == mode.calls[k]
              IN  c.handler = "update_victory" =>
                      /\ <<c.world, c.stage>> = HdrSuccessor(c.at[1], c.at[2])
                      /\ k = Len(mode.calls) => <<mode.world, mode.stage>> = <<c.world, c.stage>>
        /\ (obs.state = "VICTORY" /\ Len(mode.calls) = 1) =>
              /\ <<mode.world, mode.stage>> = HdrSuccessor(mode.calls[1].at[1], mode.calls[1].at[2])
              /\ mode.level.world_no = mode.world
              /\ mode.level.stage = mode.stage

\* ENTER on the victory screen of 8-4 has started 1-1
C38_Witness ==
    /\ prog = "hdr4k_game"
    /\ obs.state = "VICTORY"
    /\ Len(mode.calls) = 1
    /\ mode.calls[1].at = <<8, 4>>
    /\ mode.state = "LEVEL"
    /\ mode.world = 1
    /\ mode.stage = 1

\* C39: in the state LEVEL the level and the camera are set and are the ones
\* start_level built for the current (world, stage); LEVEL is entered through
\* start_level only, with both timers at 0, and VICTORY and DEAD are entered
\* from LEVEL only.
C39_LevelBuiltForCurrent ==
    prog = "hdr4k_game" =>
        /\ mode.state = "LEVEL" =>
              /\ mode.level # HdrNoLevel
              /\ mode.camera # HdrNoCamera
              /\ mode.level.world_no = mode.world
              /\ mode.level.stage = mode.stage
              /\ mode.camera.level_width_px = mode.level.width_px
        /\ (mode.state = "LEVEL" /\ (obs.state # "LEVEL" \/ mode.calls # <<>>)) =>
              /\ mode.calls # <<>>
              /\ mode.death_timer = 0
              /\ mode.victory_timer = 0
        /\ (mode.state \in {"VICTORY", "DEAD"} /\ obs.state # mode.state) =>
              obs.state = "LEVEL"

====
